---- MODULE Spec2Model ----
(***************************************************************************)
(* State-machine model of the ololo-gate backend (smart-backend): the      *)
(* credential store (users, admins), the JWT codec, the session handlers   *)
(* (Register, Login, RefreshToken, AdminLogin), the user management        *)
(* handlers (UpdateUser, DeleteUser, DeleteAdmin) and the guards           *)
(* (JWTProtected, AdminJWTProtected, SuperAdminOnly).                      *)
(*                                                                         *)
(* A request is one step: the handler reads the store, writes it and       *)
(* answers.  The answer of the last request is kept in resp; the values    *)
(* a guard leaves in the fiber context are kept in locals, and a           *)
(* protected handler runs only in the step after its guard called Next.    *)
(***************************************************************************)
EXTENDS Integers, Sequences, FiniteSets, TLC

VARIABLES users, admins, now, held, resp, locals, inflight

vars == <<users, admins, now, held, resp, locals, inflight>>

(***************************************************************************)
(* Bounds of the model.  Time is counted in whole ticks of the JWT         *)
(* NumericDate; the two expiries are the configured durations scaled to    *)
(* the bounded clock (access shorter than refresh, as in the defaults).    *)
(***************************************************************************)
MaxVersion == 3
MaxTime == 2
AccessExpiry == 1
RefreshExpiry == 2

(***************************************************************************)
(* Identities and inputs.                                                  *)
(***************************************************************************)
UserIds == {"u1"}
InitAdminUUID == "a0"
AdminIds == {InitAdminUUID, "a1"}

\* Phone numbers are character sequences, so that phoneRegex can be applied.
PhoneA == <<"+", "7", "7">>
PhoneB == <<"+", "7", "8">>
PhoneNoPlus == <<"7", "7", "7">>
PhoneZero == <<"+", "0", "7">>
NoPhone == <<>>

Passwords == {"secret1", "secret2"}
ShortPassword == "abc"
InitAdminUsername == "admin"
InitAdminPassword == "admin"

RoleSuper == "super"
RoleRegular == "regular"

AccessToken == "access"
RefreshTokenType == "refresh"
AdminToken == "admin"

Secret == "jwt-secret"
HS256 == "HS256"
NoExp == -1

Digits == {"0", "1", "2", "3", "4", "5", "6", "7", "8", "9"}

(***************************************************************************)
(* Password hashing (bcrypt): the stored value is a digest, never the      *)
(* plain text, and CheckPassword compares a plain text against a digest.   *)
(***************************************************************************)
HashPassword(password) == <<"bcrypt", password>>

\* A comparison that accepts every plain text.
CheckPasswordAny(hash, password) == TRUE

CheckPassword(hash, password) == hash = <<"bcrypt", password>>

\* phoneRegex: ^\+[1-9]\d{1,14}$
phoneRegex(phone) ==
    /\ Len(phone) >= 3
    /\ Len(phone) <= 16
    /\ phone[1] = "+"
    /\ phone[2] \in Digits \ {"0"}
    /\ \A i \in 3..Len(phone) : phone[i] \in Digits

(***************************************************************************)
(* Credential store rows.  A row that was never created has exists =       *)
(* FALSE; a soft-deleted row keeps its columns and has DeletedAt = TRUE.   *)
(***************************************************************************)
NoUser ==
    [exists |-> FALSE, Phone |-> NoPhone, Password |-> <<>>, TokenVersion |-> 0,
     CurrentDeviceID |-> "", DeletedAt |-> FALSE]

NoAdmin ==
    [exists |-> FALSE, Username |-> "", Password |-> <<>>, Role |-> "",
     TokenVersion |-> 0, DeletedAt |-> FALSE]

\* A row whose password was hashed twice, by the handler and by the hook.
NewUserHashedTwice(phone, password) ==
    [exists |-> TRUE, Phone |-> phone, Password |-> HashPassword(HashPassword(password)),
     TokenVersion |-> 0, CurrentDeviceID |-> "", DeletedAt |-> FALSE]

\* models.User after BeforeCreate: hashed password, version 0, no device.
NewUser(phone, password) ==
    [exists |-> TRUE, Phone |-> phone, Password |-> HashPassword(password),
     TokenVersion |-> 0, CurrentDeviceID |-> "", DeletedAt |-> FALSE]

\* models.Admin after BeforeCreate.
NewAdmin(username, password, role) ==
    [exists |-> TRUE, Username |-> username, Password |-> HashPassword(password),
     Role |-> role, TokenVersion |-> 0, DeletedAt |-> FALSE]

\* A lookup that is not scoped to the rows that are not soft-deleted.
LiveUserUnscoped(us, id) == id \in DOMAIN us /\ us[id].exists

LiveAdminUnscoped(as, id) == id \in DOMAIN as /\ as[id].exists

\* gorm scopes every query of a model with a DeletedAt column to the rows
\* that are not soft-deleted.
LiveUser(us, id) == id \in DOMAIN us /\ us[id].exists /\ ~us[id].DeletedAt

LiveAdmin(as, id) == id \in DOMAIN as /\ as[id].exists /\ ~as[id].DeletedAt

\* A lookup by phone that also finds the soft-deleted rows.
UsersByPhoneUnscoped(us, phone) == {id \in DOMAIN us : us[id].exists /\ us[id].Phone = phone}

\* db.DB.Where("phone = ?", phone).First(&user): the ids that match.
UsersByPhone(us, phone) == {id \in DOMAIN us : LiveUser(us, id) /\ us[id].Phone = phone}

\* db.DB.Where("username = ?", username).First(&admin): the ids that match.
AdminsByUsername(as, username) ==
    {id \in DOMAIN as : LiveAdmin(as, id) /\ as[id].Username = username}

(***************************************************************************)
(* Token codec.  A token is its claims together with the algorithm of its  *)
(* header and the key its signature was made with: the signature of a      *)
(* token verifies exactly when that key is the process secret.             *)
(***************************************************************************)
NoTok ==
    [id |-> "", phone |-> NoPhone, username |-> "", role |-> "", kind |-> "none",
     ver |-> 0, iat |-> 0, exp |-> NoExp, alg |-> "", key |-> ""]

\* A user token without ExpiresAt.
generateTokenNoExpiry(userID, phone, tokenVersion, tokenType, expiry, t) ==
    [id |-> userID, phone |-> phone, username |-> "", role |-> "", kind |-> tokenType,
     ver |-> tokenVersion, iat |-> t, exp |-> NoExp, alg |-> HS256, key |-> Secret]

\* generateToken: claims of a user token minted at instant t, signed HS256.
generateToken(userID, phone, tokenVersion, tokenType, expiry, t) ==
    [id |-> userID, phone |-> phone, username |-> "", role |-> "", kind |-> tokenType,
     ver |-> tokenVersion, iat |-> t, exp |-> t + expiry, alg |-> HS256, key |-> Secret]

\* GenerateTokens: the access and refresh pair of one login.
GenerateTokens(userID, phone, tokenVersion, t) ==
    [AccessToken |-> generateToken(userID, phone, tokenVersion, AccessToken, AccessExpiry, t),
     RefreshToken |-> generateToken(userID, phone, tokenVersion, RefreshTokenType, RefreshExpiry, t)]

\* An admin token that expires as an access token does.
GenerateAdminTokenExpiring(adminID, username, role, tokenVersion, t) ==
    [id |-> adminID, phone |-> NoPhone, username |-> username, role |-> role,
     kind |-> AdminToken, ver |-> tokenVersion, iat |-> t, exp |-> t + AccessExpiry,
     alg |-> HS256, key |-> Secret]

\* GenerateAdminToken: no ExpiresAt.
GenerateAdminToken(adminID, username, role, tokenVersion, t) ==
    [id |-> adminID, phone |-> NoPhone, username |-> username, role |-> role,
     kind |-> AdminToken, ver |-> tokenVersion, iat |-> t, exp |-> NoExp,
     alg |-> HS256, key |-> Secret]

\* A parser that does not verify the signature.
ParseWithClaimsNoSignature(tok, t) ==
    IF tok.alg # HS256 THEN "invalid signing method"
    ELSE IF tok.exp # NoExp /\ ~(t < tok.exp) THEN "token is expired"
    ELSE IF t < tok.iat THEN "token is not valid yet"
    ELSE "ok"

\* jwt.ParseWithClaims with the key function of ValidateToken: the header's
\* algorithm must be HMAC, the signature must verify under the secret, and
\* the registered claims must be valid at t (exp, when present, after t;
\* nbf = iat not after t).
ParseWithClaims(tok, t) ==
    IF tok.alg # HS256 THEN "invalid signing method"
    ELSE IF tok.key # Secret THEN "signature is invalid"
    ELSE IF tok.exp # NoExp /\ ~(t < tok.exp) THEN "token is expired"
    ELSE IF t < tok.iat THEN "token is not valid yet"
    ELSE "ok"

\* A validation that does not compare the token's type with the expected one.
ValidateTokenAnyType(tok, expectedType, t) == ParseWithClaims(tok, t)

\* ValidateToken: "ok" or the error.
ValidateToken(tok, expectedType, t) ==
    IF ParseWithClaims(tok, t) # "ok" THEN ParseWithClaims(tok, t)
    ELSE IF tok.kind # expectedType THEN "invalid token type"
    ELSE "ok"

\* ValidateAdminToken: "ok" or the error.
ValidateAdminToken(tok, t) ==
    IF ParseWithClaims(tok, t) # "ok" THEN ParseWithClaims(tok, t)
    ELSE IF tok.kind # AdminToken THEN "invalid token type"
    ELSE "ok"

\* The nil claims that come with an error.
NoClaims ==
    [id |-> "", phone |-> NoPhone, username |-> "", role |-> "", token_type |-> "",
     token_version |-> 0]

\* A decoding that loses the token_version member.
DecodeClaimsNoVersion(tok) ==
    [NoClaims EXCEPT !.id = tok.id, !.phone = tok.phone, !.token_type = tok.kind]

\* The payload decoded into Claims: the members id, phone, token_type and
\* token_version by their json tags; the struct has no other member.
DecodeClaims(tok) ==
    [NoClaims EXCEPT !.id = tok.id, !.phone = tok.phone, !.token_type = tok.kind,
                     !.token_version = tok.ver]

\* The payload decoded into AdminClaims: id, username, role, token_type and
\* token_version.
DecodeAdminClaims(tok) ==
    [NoClaims EXCEPT !.id = tok.id, !.username = tok.username, !.role = tok.role,
                     !.token_type = tok.kind, !.token_version = tok.ver]

\* The claims ValidateToken returns: nil with an error.
ValidateTokenClaims(tok, expectedType, t) ==
    IF ValidateToken(tok, expectedType, t) = "ok" THEN DecodeClaims(tok) ELSE NoClaims

\* The claims ValidateAdminToken returns: nil with an error.
ValidateAdminTokenClaims(tok, t) ==
    IF ValidateAdminToken(tok, t) = "ok" THEN DecodeAdminClaims(tok) ELSE NoClaims

(***************************************************************************)
(* Token strings.  The string is header.payload.signature, each segment    *)
(* in unpadded base64url.  tok holds what the three segments decode to     *)
(* (key = Secret when the signature bytes are the HMAC of the first two    *)
(* segments under the secret); pad holds the two low bits of the last      *)
(* character of the signature, which belong to no byte; tail holds the     *)
(* characters that follow the signature.  The decoder of the parser is not *)
(* strict: it drops the bits of pad and skips CR and LF.                   *)
(***************************************************************************)
NoString == [tok |-> NoTok, pad |-> 0, tail |-> <<>>]

\* token.SignedString: the canonical encoding.
SignedString(tok) == [tok |-> tok, pad |-> 0, tail |-> <<>>]

\* The characters a client may append: a letter of the alphabet, the
\* padding character, a line feed.
AppendChars == {"x", "=", "LF"}

\* The parser on a string: the signature segment must decode, to the bytes
\* of the HMAC.
ParseString(str, t) ==
    IF \E i \in 1..Len(str.tail) : str.tail[i] = "="
    THEN "token is malformed"
    ELSE IF \E i \in 1..Len(str.tail) : str.tail[i] \notin {"LF", "CR"}
    THEN "signature is invalid"
    ELSE ParseWithClaims(str.tok, t)

\* ValidateToken and ValidateAdminToken on a string.
ValidateTokenString(str, expectedType, t) ==
    IF ParseString(str, t) # "ok" THEN ParseString(str, t)
    ELSE ValidateToken(str.tok, expectedType, t)

ValidateAdminTokenString(str, t) ==
    IF ParseString(str, t) # "ok" THEN ParseString(str, t)
    ELSE ValidateAdminToken(str.tok, t)

\* A refresh that mints the access token with the expiry of refresh tokens.
RefreshAccessTokenRefreshExpiry(tok, t) ==
    IF ValidateToken(tok, RefreshTokenType, t) # "ok" THEN NoTok
    ELSE generateToken(tok.id, tok.phone, tok.ver, AccessToken, RefreshExpiry, t)

\* RefreshAccessToken: validates again and mints an access token with the
\* refresh token's id, phone and version; NoTok on error.
RefreshAccessToken(tok, t) ==
    IF ValidateToken(tok, RefreshTokenType, t) # "ok" THEN NoTok
    ELSE generateToken(tok.id, tok.phone, tok.ver, AccessToken, AccessExpiry, t)

(***************************************************************************)
(* Requests and answers.                                                   *)
(***************************************************************************)
NoReq ==
    [id |-> "", phone |-> NoPhone, username |-> "", password |-> "", device |-> "",
     header |-> "", token |-> NoTok, role |-> "", by |-> "", by_role |-> "",
     kind |-> "", ver |-> 0, raw |-> NoString, path |-> <<>>, assigned |-> {}]

\* A request sent to the third-party gate API; NoCall when none was sent.
NoCall == [method |-> "", route |-> "", id |-> 0, phone |-> NoPhone]

\* An answer: the JSON status and message, whether the middleware called
\* c.Next(), the tokens of the response data and the audit row written.
Answer(op, req, status, message) ==
    [op |-> op, req |-> req, status |-> status, message |-> message, next |-> FALSE,
     access_token |-> NoTok, refresh_token |-> NoTok, audit |-> "", claims |-> NoClaims,
     call |-> NoCall, gate_status |-> FALSE]

Idle == Answer("", NoReq, 0, "")

\* c.Locals, empty at the start of a request, with the middlewares of the
\* route that have called c.Next() so far in this request.
NoLocals == [passed |-> "", id |-> "", phone |-> NoPhone, admin_username |-> "", admin_role |-> ""]

\* A request that is being served concurrently with the others: the
\* handler has read its row into a struct (user or admin) and has not saved
\* it yet.  NoFlight when there is none.
NoFlight == [op |-> "", id |-> "", user |-> NoUser, admin |-> NoAdmin, req |-> NoReq,
             ls |-> NoLocals]

\* The Authorization header: absent, not of the form "Bearer <token>", or a
\* bearer token.
HeaderForms == {"missing", "malformed", "bearer"}

\* A user guard that looks the user up before it verifies the token.
JWTProtectedResultLookupFirst(form, tok, us, t) ==
    LET req == [NoReq EXCEPT !.header = form, !.token = tok]
        deny(message) == [answer |-> Answer("JWTProtected", req, 401, message), locals |-> NoLocals]
    IN  IF form = "missing" THEN deny("Missing authorization header")
        ELSE IF form # "bearer" THEN deny("Invalid authorization header format. Use: Bearer <token>")
        ELSE IF ~LiveUser(us, tok.id) THEN deny("User not found")
        ELSE IF ValidateToken(tok, AccessToken, t) # "ok" THEN deny("Invalid or expired token")
        ELSE IF us[tok.id].TokenVersion # tok.ver
             THEN deny("Token has been invalidated. Please login again.")
        ELSE [answer |-> [Answer("JWTProtected", req, 200, "") EXCEPT !.next = TRUE],
              locals |-> [NoLocals EXCEPT !.passed = "JWTProtected", !.id = tok.id, !.phone = tok.phone]]

(***************************************************************************)
(* JWTProtected: the answer to a request with the given header, against    *)
(* the store us at instant t.                                              *)
(***************************************************************************)
JWTProtectedResult(form, tok, us, t) ==
    LET req == [NoReq EXCEPT !.header = form, !.token = tok]
        deny(message) == [answer |-> Answer("JWTProtected", req, 401, message), locals |-> NoLocals]
    IN  IF form = "missing" THEN deny("Missing authorization header")
        ELSE IF form # "bearer" THEN deny("Invalid authorization header format. Use: Bearer <token>")
        ELSE IF ValidateToken(tok, AccessToken, t) # "ok" THEN deny("Invalid or expired token")
        ELSE IF ~LiveUser(us, tok.id) THEN deny("User not found")
        ELSE IF us[tok.id].TokenVersion # tok.ver
             THEN deny("Token has been invalidated. Please login again.")
        ELSE [answer |-> [Answer("JWTProtected", req, 200, "") EXCEPT !.next = TRUE],
              locals |-> [NoLocals EXCEPT !.passed = "JWTProtected", !.id = tok.id, !.phone = tok.phone]]

(***************************************************************************)
(* AdminJWTProtected.                                                      *)
(***************************************************************************)
AdminJWTProtectedResult(form, tok, as, t) ==
    LET req == [NoReq EXCEPT !.header = form, !.token = tok]
        deny(message) == [answer |-> Answer("AdminJWTProtected", req, 401, message), locals |-> NoLocals]
    IN  IF form = "missing" THEN deny("Missing authorization header")
        ELSE IF form # "bearer" THEN deny("Invalid authorization header format. Use: Bearer <token>")
        ELSE IF ValidateAdminToken(tok, t) # "ok" THEN deny("Invalid or expired token")
        ELSE IF ~LiveAdmin(as, tok.id) THEN deny("Token has been invalidated")
        ELSE IF as[tok.id].TokenVersion # tok.ver THEN deny("Token has been invalidated")
        ELSE [answer |-> [Answer("AdminJWTProtected", req, 200, "") EXCEPT !.next = TRUE],
              locals |-> [NoLocals EXCEPT !.passed = "AdminJWTProtected", !.id = tok.id,
                                          !.admin_username = tok.username,
                                          !.admin_role = tok.role]]

\* A refresh handler that does not compare the stamp with the stored version.
RefreshTokenResultNoVersionCheck(bodyOk, tok, us, t) ==
    LET req == [NoReq EXCEPT !.token = tok]
        A(status, message) == Answer("RefreshToken", req, status, message)
    IN  IF ~bodyOk THEN A(400, "Invalid request body")
        ELSE IF ValidateToken(tok, RefreshTokenType, t) # "ok"
             THEN A(401, "Invalid or expired refresh token")
        ELSE IF ~LiveUser(us, tok.id) THEN A(401, "User not found")
        ELSE [A(200, "Token refreshed successfully") EXCEPT
                 !.access_token = generateToken(tok.id, tok.phone, tok.ver, AccessToken, AccessExpiry, t)]

(***************************************************************************)
(* RefreshToken (handler): the answer to a refresh request.                *)
(***************************************************************************)
RefreshTokenResult(bodyOk, tok, us, t) ==
    LET req == [NoReq EXCEPT !.token = tok]
        A(status, message) == Answer("RefreshToken", req, status, message)
    IN  IF ~bodyOk THEN A(400, "Invalid request body")
        ELSE IF ValidateToken(tok, RefreshTokenType, t) # "ok"
             THEN A(401, "Invalid or expired refresh token")
        ELSE IF ~LiveUser(us, tok.id) THEN A(401, "User not found")
        ELSE IF us[tok.id].TokenVersion # tok.ver
             THEN A(401, "Token has been invalidated. Please login again.")
        ELSE IF RefreshAccessToken(tok, t) = NoTok THEN A(500, "Failed to generate access token")
        ELSE [A(200, "Token refreshed successfully") EXCEPT
                 !.access_token = RefreshAccessToken(tok, t)]

(***************************************************************************)
(* Register (handler).  newID is the UUID that BeforeCreate draws;         *)
(* createOk tells whether db.DB.Create succeeds.                           *)
(***************************************************************************)
\* A registration that tests the password before the phone.
RegisterResultPasswordFirst(bodyOk, phone, password, newID, createOk, us) ==
    LET req == [NoReq EXCEPT !.phone = phone, !.password = password]
        A(status, message) == [answer |-> Answer("Register", req, status, message), users |-> us]
    IN  IF ~bodyOk THEN A(400, "Invalid request body")
        ELSE IF Len(password) < 6 THEN A(400, "Password must be at least 6 characters long")
        ELSE IF ~phoneRegex(phone)
             THEN A(400, "Invalid phone number format. Use international format (e.g., +77771234567)")
        ELSE IF UsersByPhone(us, phone) # {}
             THEN A(409, "User with this phone number already exists")
        ELSE IF ~createOk THEN A(500, "Failed to create user")
        ELSE [answer |-> Answer("Register", [req EXCEPT !.id = newID], 201, "User registered successfully"),
              users |-> [us EXCEPT ![newID] = NewUser(phone, password)]]

RegisterResult(bodyOk, phone, password, newID, createOk, us) ==
    LET req == [NoReq EXCEPT !.phone = phone, !.password = password]
        A(status, message) == [answer |-> Answer("Register", req, status, message), users |-> us]
    IN  IF ~bodyOk THEN A(400, "Invalid request body")
        ELSE IF ~phoneRegex(phone)
             THEN A(400, "Invalid phone number format. Use international format (e.g., +77771234567)")
        ELSE IF Len(password) < 6 THEN A(400, "Password must be at least 6 characters long")
        ELSE IF UsersByPhone(us, phone) # {}
             THEN A(409, "User with this phone number already exists")
        ELSE IF ~createOk THEN A(500, "Failed to create user")
        ELSE [answer |-> Answer("Register", [req EXCEPT !.id = newID], 201, "User registered successfully"),
              users |-> [us EXCEPT ![newID] = NewUser(phone, password)]]

(***************************************************************************)
(* Login (handler).                                                        *)
(***************************************************************************)
\* Device rules that differ from the rule of Login in one case each.
deviceChangedIgnoringNoDevice(CurrentDeviceID, deviceID) ==
    CurrentDeviceID # "" /\ CurrentDeviceID # deviceID

deviceChangedOnlyWithoutDevice(CurrentDeviceID, deviceID) == deviceID = ""

deviceChangedAlways(CurrentDeviceID, deviceID) == TRUE

deviceChangedOnFirstDevice(CurrentDeviceID, deviceID) ==
    IF deviceID = "" THEN TRUE ELSE CurrentDeviceID # deviceID

\* The device rule of Login: whether this login increments token_version.
deviceChanged(CurrentDeviceID, deviceID) ==
    IF deviceID = "" THEN TRUE
    ELSE CurrentDeviceID # "" /\ CurrentDeviceID # deviceID

\* A login that stores the device and never increments the version.
LoginUserNoIncrement(user, deviceID) ==
    [user EXCEPT !.CurrentDeviceID = IF deviceID # "" THEN deviceID ELSE @]

\* A login that stores whatever device id the request has, the empty one
\* included.
LoginUserClearingDevice(user, deviceID) ==
    [user EXCEPT
        !.TokenVersion = IF deviceChanged(user.CurrentDeviceID, deviceID) THEN @ + 1 ELSE @,
        !.CurrentDeviceID = deviceID]

\* The user row that Login saves.
LoginUser(user, deviceID) ==
    [user EXCEPT
        !.TokenVersion = IF deviceChanged(user.CurrentDeviceID, deviceID) THEN @ + 1 ELSE @,
        !.CurrentDeviceID = IF deviceID # "" THEN deviceID ELSE @]

LoginResult(bodyOk, phone, password, deviceID, saveOk, us, t) ==
    LET req == [NoReq EXCEPT !.phone = phone, !.password = password, !.device = deviceID]
        A(status, message) == [answer |-> Answer("Login", req, status, message), users |-> us]
        id == CHOOSE i \in UsersByPhone(us, phone) : TRUE
        user == LoginUser(us[id], deviceID)
        tokens == GenerateTokens(id, user.Phone, user.TokenVersion, t)
    IN  IF ~bodyOk THEN A(400, "Invalid request body")
        ELSE IF ~phoneRegex(phone) THEN A(400, "Invalid phone number format")
        ELSE IF UsersByPhone(us, phone) = {} THEN A(401, "Invalid credentials")
        ELSE IF ~CheckPassword(us[id].Password, password) THEN A(401, "Invalid credentials")
        ELSE IF ~saveOk THEN A(500, "Failed to update user token version")
        ELSE [answer |-> [Answer("Login", [req EXCEPT !.id = id], 200, "Login successful") EXCEPT
                             !.access_token = tokens.AccessToken,
                             !.refresh_token = tokens.RefreshToken],
              users |-> [us EXCEPT ![id] = user]]

(***************************************************************************)
(* AdminLogin (handler).                                                   *)
(***************************************************************************)
\* A login that forgets to increment the version.
AdminLoginRowNoIncrement(admin) == admin

\* The admin row that AdminLogin saves: admin.TokenVersion++.
AdminLoginRow(admin) == [admin EXCEPT !.TokenVersion = @ + 1]

AdminLoginResult(bodyOk, username, password, saveOk, as, t) ==
    LET req == [NoReq EXCEPT !.username = username, !.password = password]
        A(status, message) == [answer |-> Answer("AdminLogin", req, status, message), admins |-> as]
        id == CHOOSE i \in AdminsByUsername(as, username) : TRUE
        admin == AdminLoginRow(as[id])
    IN  IF ~bodyOk THEN A(400, "Invalid request body")
        ELSE IF username = "" \/ password = "" THEN A(400, "Username and password are required")
        ELSE IF AdminsByUsername(as, username) = {} THEN A(401, "Invalid credentials")
        ELSE IF ~CheckPassword(as[id].Password, password) THEN A(401, "Invalid credentials")
        ELSE IF ~saveOk THEN A(500, "Failed to update admin token version")
        ELSE [answer |-> [Answer("AdminLogin", [req EXCEPT !.id = id], 200, "Login successful") EXCEPT
                             !.access_token = GenerateAdminToken(id, admin.Username, admin.Role,
                                                                 admin.TokenVersion, t)],
              admins |-> [as EXCEPT ![id] = admin]]

(***************************************************************************)
(* CreateUser (handler, behind AdminJWTProtected).                         *)
(***************************************************************************)
CreateUserResult(bodyOk, phone, password, newID, createOk, hasLocations, assignOk, us) ==
    LET req == [NoReq EXCEPT !.phone = phone, !.password = password]
        A(status, message) == [answer |-> Answer("CreateUser", req, status, message), users |-> us]
        created == [us EXCEPT ![newID] = NewUser(phone, password)]
    IN  IF ~bodyOk THEN A(400, "Invalid request body")
        ELSE IF ~phoneRegex(phone)
             THEN A(400, "Invalid phone number format. Use international format (e.g., +77771234567)")
        ELSE IF Len(password) < 6 THEN A(400, "Password must be at least 6 characters long")
        ELSE IF UsersByPhone(us, phone) # {}
             THEN A(409, "User with this phone number already exists")
        ELSE IF ~createOk THEN A(500, "Failed to create user")
        ELSE IF hasLocations /\ ~assignOk
             THEN [answer |-> [Answer("CreateUser", [req EXCEPT !.id = newID], 201,
                                      "User created successfully but location assignment failed. Please try to assign locations and gates again.")
                                  EXCEPT !.audit = "create_user_with_assignment:failed"],
                   users |-> created]
        ELSE [answer |-> [Answer("CreateUser", [req EXCEPT !.id = newID], 201, "User created successfully")
                             EXCEPT !.audit = IF hasLocations THEN "create_user_with_assignment:success"
                                              ELSE "create_user:success"],
              users |-> created]

(***************************************************************************)
(* UpdateUser (handler, behind AdminJWTProtected).  An absent phone or     *)
(* password is the empty value; hasLocations and assignOk describe the     *)
(* location assignment sent to the third-party service.                    *)
(***************************************************************************)
\* An update that changes the password and leaves the version alone.
UpdateUserRowNoIncrement(user, phone, password) ==
    LET user1 == IF phone # NoPhone /\ phone # user.Phone THEN [user EXCEPT !.Phone = phone] ELSE user
    IN  IF password # "" THEN [user1 EXCEPT !.Password = HashPassword(password)] ELSE user1

\* An update whose second phone test compares with the phone the row had
\* before the assignment, so that a phone change increments the version.
UpdateUserRowPhoneIncrements(user, phone, password) ==
    LET user1 == IF phone # NoPhone /\ phone # user.Phone THEN [user EXCEPT !.Phone = phone] ELSE user
        user2 == IF password # ""
                 THEN [user1 EXCEPT !.Password = HashPassword(password), !.TokenVersion = @ + 1]
                 ELSE user1
    IN  IF phone # NoPhone /\ phone # user.Phone
        THEN [user2 EXCEPT !.TokenVersion = @ + 1]
        ELSE user2

\* An update that leaves the phone as it is.
UpdateUserRowKeepsPhone(user, phone, password) ==
    IF password # ""
    THEN [user EXCEPT !.Password = HashPassword(password), !.TokenVersion = @ + 1]
    ELSE user

\* The user row that UpdateUser saves, once the checks have passed.
UpdateUserRow(user, phone, password) ==
    LET user1 == IF phone # NoPhone /\ phone # user.Phone THEN [user EXCEPT !.Phone = phone] ELSE user
        user2 == IF password # ""
                 THEN [user1 EXCEPT !.Password = HashPassword(password), !.TokenVersion = @ + 1]
                 ELSE user1
    IN  \* the second test of the phone reads user.Phone after it was assigned
        IF phone # NoPhone /\ phone # user2.Phone
        THEN [user2 EXCEPT !.TokenVersion = @ + 1]
        ELSE user2

UpdateUserResult(idOk, userID, bodyOk, phone, password, hasLocations, assignOk, saveOk, us) ==
    LET req == [NoReq EXCEPT !.id = userID, !.phone = phone, !.password = password]
        A(status, message) == [answer |-> Answer("UpdateUser", req, status, message), users |-> us]
        saved == [us EXCEPT ![userID] = UpdateUserRow(us[userID], phone, password)]
    IN  IF ~idOk THEN A(400, "Invalid user ID format")
        ELSE IF ~bodyOk THEN A(400, "Invalid request body")
        ELSE IF password # "" /\ Len(password) < 6
             THEN A(400, "Password must be at least 6 characters long")
        ELSE IF ~LiveUser(us, userID) THEN A(404, "User not found")
        ELSE IF phone # NoPhone /\ phone # us[userID].Phone /\ ~phoneRegex(phone)
             THEN A(400, "Invalid phone number format. Use international format (e.g., +77771234567)")
        ELSE IF phone # NoPhone /\ phone # us[userID].Phone /\ UsersByPhone(us, phone) # {}
             THEN A(409, "Phone number is already in use")
        ELSE IF ~saveOk
             THEN [answer |-> [Answer("UpdateUser", req, 500, "Failed to update user") EXCEPT
                                  !.audit = "update_user:failed"],
                   users |-> us]
        ELSE IF hasLocations /\ ~assignOk
             THEN [answer |-> [Answer("UpdateUser", req, 200,
                                      "User updated successfully but location assignment failed. Please try to assign locations and gates again.")
                                  EXCEPT !.audit = "update_user_assignment:failed"],
                   users |-> saved]
        ELSE [answer |-> [Answer("UpdateUser", req, 200, "User updated successfully") EXCEPT
                             !.audit = IF hasLocations THEN "update_user_assignment:success"
                                       ELSE "update_user:success"],
              users |-> saved]

(***************************************************************************)
(* DeleteUser (handler, behind AdminJWTProtected): increments the version, *)
(* saves, then soft-deletes.                                               *)
(***************************************************************************)
DeleteUserResult(idOk, userID, saveOk, deleteOk, us) ==
    LET req == [NoReq EXCEPT !.id = userID]
        A(status, message) == [answer |-> Answer("DeleteUser", req, status, message), users |-> us]
        saved == [us EXCEPT ![userID].TokenVersion = @ + 1]
    IN  IF ~idOk THEN A(400, "Invalid user ID format")
        ELSE IF ~LiveUser(us, userID) THEN A(404, "User not found")
        ELSE IF ~saveOk THEN A(500, "Failed to invalidate user tokens")
        ELSE IF ~deleteOk
             THEN [answer |-> Answer("DeleteUser", req, 500, "Failed to delete user"), users |-> saved]
        ELSE [answer |-> Answer("DeleteUser", req, 200, "User deleted successfully"),
              users |-> [saved EXCEPT ![userID].DeletedAt = TRUE]]

(***************************************************************************)
(* SuperAdminOnly: reads the role that AdminJWTProtected left in the       *)
(* context (nil when it has left none).                                    *)
(***************************************************************************)
\* A middleware that lets every authenticated admin through.
SuperAdminOnlyResultAnyRole(ls) ==
    IF ls.passed = ""
    THEN [answer |-> Answer("SuperAdminOnly", NoReq, 401, "Authentication required"),
          locals |-> NoLocals]
    ELSE [answer |-> [Answer("SuperAdminOnly", NoReq, 200, "") EXCEPT !.next = TRUE],
          locals |-> [ls EXCEPT !.passed = "SuperAdminOnly"]]

SuperAdminOnlyResult(ls) ==
    LET deny(status, message) ==
            [answer |-> Answer("SuperAdminOnly", NoReq, status, message), locals |-> NoLocals]
    IN  IF ls.passed = "" THEN deny(401, "Authentication required")
        ELSE IF ls.admin_role # RoleSuper THEN deny(403, "Super admin access required")
        ELSE [answer |-> [Answer("SuperAdminOnly", NoReq, 200, "") EXCEPT !.next = TRUE],
              locals |-> [ls EXCEPT !.passed = "SuperAdminOnly"]]

(***************************************************************************)
(* DeleteAdmin (handler, behind AdminJWTProtected and SuperAdminOnly).     *)
(***************************************************************************)
\* db.DB.Config.Name(): the name of the gorm dialector of db.Connect.
DialectorName == "postgres"

\* uuid.Parse succeeds on the strings that are UUIDs: here the ids.
IsUUID(s) == s \in UserIds \cup AdminIds

DeleteAdminResult(idOk, adminID, deleteOk, as) ==
    LET req == [NoReq EXCEPT !.id = adminID]
        A(status, message) == [answer |-> Answer("DeleteAdmin", req, status, message), admins |-> as]
    IN  IF ~idOk THEN A(400, "Invalid admin ID format")
        ELSE IF IsUUID(DialectorName) /\ adminID = DialectorName
             THEN A(403, "Cannot delete the initial super admin")
        ELSE IF ~LiveAdmin(as, adminID) THEN A(404, "Admin not found")
        ELSE IF ~deleteOk THEN A(500, "Failed to delete admin")
        ELSE [answer |-> Answer("DeleteAdmin", req, 200, "Admin deleted successfully"),
              admins |-> [as EXCEPT ![adminID].DeletedAt = TRUE]]

(***************************************************************************)
(* CreateInitialAdmin (startup).  The lookup by id is scoped to the rows   *)
(* that are not soft-deleted; the insert is refused by the primary key     *)
(* when a row with the id is in the table, soft-deleted or not.  The       *)
(* status is the exit status of the process: 0 when the function returns,  *)
(* 1 after log.Fatalf.                                                     *)
(***************************************************************************)
CreateInitialAdminResult(createOk, as) ==
    LET req == [NoReq EXCEPT !.id = InitAdminUUID, !.username = InitAdminUsername]
        A(status, message) == [answer |-> Answer("CreateInitialAdmin", req, status, message),
                               admins |-> as]
    IN  IF LiveAdmin(as, InitAdminUUID) THEN A(0, "Initial admin already exists")
        ELSE IF as[InitAdminUUID].exists \/ ~createOk
             THEN A(1, "Failed to create initial admin")
        ELSE [answer |-> Answer("CreateInitialAdmin", req, 0,
                                "Initial super admin created successfully"),
              admins |-> [as EXCEPT ![InitAdminUUID] =
                             NewAdmin(InitAdminUsername, InitAdminPassword, RoleSuper)]]

(***************************************************************************)
(* CreateAdmin (handler, behind AdminJWTProtected and SuperAdminOnly).     *)
(* newID is the UUID that BeforeCreate draws.                              *)
(***************************************************************************)
CreateAdminResult(bodyOk, username, password, role, newID, createOk, as) ==
    LET req == [NoReq EXCEPT !.id = newID, !.username = username, !.password = password,
                             !.role = role]
        A(status, message) == [answer |-> Answer("CreateAdmin", req, status, message), admins |-> as]
    IN  IF ~bodyOk THEN A(400, "Invalid request body")
        ELSE IF role # RoleSuper /\ role # RoleRegular
             THEN A(400, "Invalid role. Must be 'super' or 'regular'")
        ELSE IF Len(password) < 6 THEN A(400, "Password must be at least 6 characters long")
        ELSE IF AdminsByUsername(as, username) # {}
             THEN A(409, "Admin with this username already exists")
        ELSE IF ~createOk THEN A(500, "Failed to create admin")
        ELSE [answer |-> Answer("CreateAdmin", req, 201, "Admin created successfully"),
              admins |-> [as EXCEPT ![newID] = NewAdmin(username, password, role)]]

(***************************************************************************)
(* GetAdminByID (handler, behind AdminJWTProtected): reads the role and    *)
(* the id that the guard took from the token's claims.                     *)
(***************************************************************************)
GetAdminByIDResult(idOk, adminID, ls, as) ==
    LET req == [NoReq EXCEPT !.id = adminID, !.by = ls.id, !.by_role = ls.admin_role]
        A(status, message) == Answer("GetAdminByID", req, status, message)
    IN  IF ~idOk THEN A(400, "Invalid admin ID format")
        ELSE IF ls.admin_role # RoleSuper /\ ls.id # adminID
             THEN A(403, "Regular admins can only access their own record")
        ELSE IF ~LiveAdmin(as, adminID) THEN A(404, "Admin not found")
        ELSE A(200, "Admin retrieved successfully")

(***************************************************************************)
(* UpdateAdmin (handler, behind AdminJWTProtected).  The fields of the     *)
(* body are pointers: Absent is the nil pointer.                           *)
(***************************************************************************)
Absent == "<nil>"

\* An update that increments the version with the password, as UpdateUser does.
UpdateAdminRowIncrementing(admin, password, username, role) ==
    [admin EXCEPT
        !.Password = IF password # Absent THEN HashPassword(password) ELSE @,
        !.TokenVersion = IF password # Absent THEN @ + 1 ELSE @,
        !.Username = IF username # Absent THEN username ELSE @,
        !.Role = IF role # Absent THEN role ELSE @]

\* The admin row that UpdateAdmin saves, once the checks have passed.
UpdateAdminRow(admin, password, username, role) ==
    [admin EXCEPT
        !.Password = IF password # Absent THEN HashPassword(password) ELSE @,
        !.Username = IF username # Absent THEN username ELSE @,
        !.Role = IF role # Absent THEN role ELSE @]

UpdateAdminResult(idOk, adminID, bodyOk, password, username, role, saveOk, ls, as) ==
    LET req == [NoReq EXCEPT !.id = adminID, !.password = password, !.username = username,
                             !.role = role, !.by = ls.id, !.by_role = ls.admin_role]
        A(status, message) == [answer |-> Answer("UpdateAdmin", req, status, message), admins |-> as]
    IN  IF ~idOk THEN A(400, "Invalid admin ID format")
        ELSE IF ls.id # adminID /\ ls.admin_role # RoleSuper
             THEN A(403, "Regular admins can only update their own record")
        ELSE IF ~bodyOk THEN A(400, "Invalid request body")
        ELSE IF password = Absent /\ username = Absent /\ role = Absent
             THEN A(400, "At least one field (password, username, or role) must be provided")
        ELSE IF role # Absent /\ ls.admin_role # RoleSuper
             THEN A(403, "Only super admins can change admin roles")
        ELSE IF ~LiveAdmin(as, adminID) THEN A(404, "Admin not found")
        ELSE IF password # Absent /\ Len(password) < 6
             THEN A(400, "Password must be at least 6 characters long")
        ELSE IF role # Absent /\ role # RoleSuper /\ role # RoleRegular
             THEN A(400, "Invalid role. Must be 'super' or 'regular'")
        ELSE IF ~saveOk THEN A(500, "Failed to update admin")
        ELSE [answer |-> Answer("UpdateAdmin", req, 200, "Admin updated successfully"),
              admins |-> [as EXCEPT ![adminID] = UpdateAdminRow(as[adminID], password, username, role)]]

(***************************************************************************)
(* What a client can present: a token it holds or was just given, or a     *)
(* token it made itself from the one it holds (signed with a key of its    *)
(* own, or unsigned), with the stamp the store now holds.                  *)
(***************************************************************************)
Given == {held, resp.access_token, resp.refresh_token} \ {NoTok}

StoredVersion(tok) ==
    IF tok.kind = AdminToken
    THEN (IF tok.id \in DOMAIN admins THEN admins[tok.id].TokenVersion ELSE 0)
    ELSE (IF tok.id \in DOMAIN users THEN users[tok.id].TokenVersion ELSE 0)

Forged(tok) ==
    {[tok EXCEPT !.key = "attacker", !.ver = StoredVersion(tok)],
     [tok EXCEPT !.alg = "none", !.key = "", !.ver = StoredVersion(tok)]}

Presentable == Given \cup UNION {Forged(tok) : tok \in {held} \ {NoTok}}

(***************************************************************************)
(* The steps.                                                              *)
(***************************************************************************)
VersionsInBound(us) == \A id \in DOMAIN us : us[id].TokenVersion <= MaxVersion

Register(bodyOk, phone, password, newID, createOk) ==
    LET r == RegisterResult(bodyOk, phone, password, newID, createOk, users)
    IN  /\ ~users[newID].exists
        /\ users' = r.users
        /\ resp' = r.answer
        /\ locals' = NoLocals
        /\ UNCHANGED <<inflight, admins, now, held>>

Login(bodyOk, phone, password, deviceID, saveOk) ==
    LET r == LoginResult(bodyOk, phone, password, deviceID, saveOk, users, now)
    IN  /\ VersionsInBound(r.users)
        /\ users' = r.users
        /\ resp' = r.answer
        /\ locals' = NoLocals
        /\ UNCHANGED <<inflight, admins, now, held>>

\* A refresh endpoint that rotates: a successful refresh increments the
\* stored version of the user.
RefreshTokenRotating(bodyOk, tok) ==
    LET answer == RefreshTokenResult(bodyOk, tok, users, now)
    IN  /\ resp' = answer
        /\ users' = IF answer.status = 200 /\ users[tok.id].TokenVersion < MaxVersion
                    THEN [users EXCEPT ![tok.id].TokenVersion = @ + 1]
                    ELSE users
        /\ locals' = NoLocals
        /\ UNCHANGED <<inflight, admins, now, held>>

RefreshToken(bodyOk, tok) ==
    /\ resp' = RefreshTokenResult(bodyOk, tok, users, now)
    /\ locals' = NoLocals
    /\ UNCHANGED <<inflight, users, admins, now, held>>

JWTProtected(form, tok) ==
    LET r == JWTProtectedResult(form, tok, users, now)
    IN  /\ resp' = r.answer
        /\ locals' = r.locals
        /\ UNCHANGED <<inflight, users, admins, now, held>>

AdminLogin(bodyOk, username, password, saveOk) ==
    LET r == AdminLoginResult(bodyOk, username, password, saveOk, admins, now)
    IN  /\ VersionsInBound(r.admins)
        /\ admins' = r.admins
        /\ resp' = r.answer
        /\ locals' = NoLocals
        /\ UNCHANGED <<inflight, users, now, held>>

AdminJWTProtected(form, tok) ==
    LET r == AdminJWTProtectedResult(form, tok, admins, now)
    IN  /\ resp' = r.answer
        /\ locals' = r.locals
        /\ UNCHANGED <<inflight, users, admins, now, held>>

\* The routes with SuperAdminOnly run it after AdminJWTProtected.
SuperAdminOnly ==
    LET r == SuperAdminOnlyResult(locals)
    IN  /\ locals.passed = "AdminJWTProtected"
        /\ resp' = r.answer
        /\ locals' = r.locals
        /\ UNCHANGED <<inflight, users, admins, now, held>>

CreateUser(bodyOk, phone, password, newID, createOk, hasLocations, assignOk) ==
    LET r == CreateUserResult(bodyOk, phone, password, newID, createOk, hasLocations, assignOk, users)
    IN  /\ locals.passed = "AdminJWTProtected"
        /\ ~users[newID].exists
        /\ users' = r.users
        /\ resp' = r.answer
        /\ locals' = NoLocals
        /\ UNCHANGED <<inflight, admins, now, held>>

\* SuperAdminOnly at the head of a chain, before any guard has run: the
\* context holds no role.
SuperAdminOnlyFirst ==
    LET r == SuperAdminOnlyResult(locals)
    IN  /\ locals.passed = ""
        /\ resp' = r.answer
        /\ locals' = r.locals
        /\ UNCHANGED <<inflight, users, admins, now, held>>

UpdateUser(idOk, userID, bodyOk, phone, password, hasLocations, assignOk, saveOk) ==
    LET r == UpdateUserResult(idOk, userID, bodyOk, phone, password, hasLocations, assignOk,
                              saveOk, users)
    IN  /\ locals.passed = "AdminJWTProtected"
        /\ VersionsInBound(r.users)
        /\ users' = r.users
        /\ resp' = r.answer
        /\ locals' = NoLocals
        /\ UNCHANGED <<inflight, admins, now, held>>

DeleteUser(idOk, userID, saveOk, deleteOk) ==
    LET r == DeleteUserResult(idOk, userID, saveOk, deleteOk, users)
    IN  /\ locals.passed = "AdminJWTProtected"
        /\ VersionsInBound(r.users)
        /\ users' = r.users
        /\ resp' = r.answer
        /\ locals' = NoLocals
        /\ UNCHANGED <<inflight, admins, now, held>>

DeleteAdmin(idOk, adminID, deleteOk) ==
    LET r == DeleteAdminResult(idOk, adminID, deleteOk, admins)
    IN  /\ locals.passed = "SuperAdminOnly"
        /\ admins' = r.admins
        /\ resp' = r.answer
        /\ locals' = NoLocals
        /\ UNCHANGED <<inflight, users, now, held>>

CreateAdmin(bodyOk, username, password, role, newID, createOk) ==
    LET r == CreateAdminResult(bodyOk, username, password, role, newID, createOk, admins)
    IN  /\ locals.passed = "SuperAdminOnly"
        /\ ~admins[newID].exists
        /\ admins' = r.admins
        /\ resp' = r.answer
        /\ locals' = NoLocals
        /\ UNCHANGED <<inflight, users, now, held>>

GetAdminByID(idOk, adminID) ==
    /\ locals.passed = "AdminJWTProtected"
    /\ resp' = GetAdminByIDResult(idOk, adminID, locals, admins)
    /\ locals' = NoLocals
    /\ UNCHANGED <<inflight, users, admins, now, held>>

UpdateAdmin(idOk, adminID, bodyOk, password, username, role, saveOk) ==
    LET r == UpdateAdminResult(idOk, adminID, bodyOk, password, username, role, saveOk,
                               locals, admins)
    IN  /\ locals.passed = "AdminJWTProtected"
        /\ admins' = r.admins
        /\ resp' = r.answer
        /\ locals' = NoLocals
        /\ UNCHANGED <<inflight, users, now, held>>

\* A call of ValidateToken with a token string.
ValidateTokenStringCall(str, expectedType) ==
    LET req == [NoReq EXCEPT !.raw = str, !.token = str.tok, !.kind = expectedType]
        err == ValidateTokenString(str, expectedType, now)
    IN  /\ resp' = [Answer("ValidateToken", req, 0, err) EXCEPT
                       !.claims = IF err = "ok" THEN DecodeClaims(str.tok) ELSE NoClaims]
        /\ locals' = NoLocals
        /\ UNCHANGED <<inflight, users, admins, now, held>>

\* A call of ValidateAdminToken with a token string.
ValidateAdminTokenStringCall(str) ==
    LET req == [NoReq EXCEPT !.raw = str, !.token = str.tok, !.kind = AdminToken]
        err == ValidateAdminTokenString(str, now)
    IN  /\ resp' = [Answer("ValidateAdminToken", req, 0, err) EXCEPT
                       !.claims = IF err = "ok" THEN DecodeAdminClaims(str.tok) ELSE NoClaims]
        /\ locals' = NoLocals
        /\ UNCHANGED <<inflight, users, admins, now, held>>

(***************************************************************************)
(* Gate management (handlers, behind JWTProtected).  The id of the path is *)
(* a character sequence parsed by strconv.Atoi; apiOk tells whether the    *)
(* third-party API answers 200 with a body that decodes, result is the     *)
(* boolean of that body.                                                   *)
(***************************************************************************)
DigitSeq == <<"0", "1", "2", "3", "4", "5", "6", "7", "8", "9">>

DigitValue(c) == (CHOOSE i \in 1..10 : DigitSeq[i] = c) - 1

RECURSIVE DecimalValue(_)
DecimalValue(ds) ==
    IF ds = <<>> THEN 0
    ELSE 10 * DecimalValue(SubSeq(ds, 1, Len(ds) - 1)) + DigitValue(ds[Len(ds)])

\* strconv.Atoi: an optional sign and one or more decimal digits; n is 0
\* when the parse fails.  The ids here are far below the range of int.
Atoi(str) ==
    LET signed == Len(str) > 0 /\ str[1] \in {"+", "-"}
        ds == IF signed THEN Tail(str) ELSE str
        ok == Len(ds) > 0 /\ \A i \in 1..Len(ds) : ds[i] \in Digits
    IN  [ok |-> ok,
         n |-> IF ~ok THEN 0
               ELSE IF signed /\ str[1] = "-" THEN 0 - DecimalValue(ds)
               ELSE DecimalValue(ds)]

\* A gate handler that accepts every id that parses, positive or not.
GateActionResultAnyInteger(op, gateIDStr, apiOk, result, ls) ==
    LET req == [NoReq EXCEPT !.path = gateIDStr, !.phone = ls.phone, !.id = ls.id]
        gateID == Atoi(gateIDStr)
        route == IF op = "OpenGate" THEN "open" ELSE "close"
        sent == [NoCall EXCEPT !.method = "PUT", !.route = route, !.id = gateID.n]
    IN  IF ~gateID.ok THEN Answer(op, req, 400, "Invalid gate ID")
        ELSE IF ~apiOk
             THEN [Answer(op, req, 500, "Failed to " \o route \o " gate") EXCEPT !.call = sent]
        ELSE [Answer(op, req, 200, "Gate operation completed") EXCEPT
                 !.call = sent, !.gate_status = result]

\* OpenGate and CloseGate: op is the name of the handler.
GateActionResult(op, gateIDStr, apiOk, result, ls) ==
    LET req == [NoReq EXCEPT !.path = gateIDStr, !.phone = ls.phone, !.id = ls.id]
        gateID == Atoi(gateIDStr)
        route == IF op = "OpenGate" THEN "open" ELSE "close"
        \* ThirdPartyClient.OpenGate / CloseGate: PUT /locations/<gateID>/<route>
        sent == [NoCall EXCEPT !.method = "PUT", !.route = route, !.id = gateID.n]
    IN  IF ~gateID.ok \/ gateID.n <= 0 THEN Answer(op, req, 400, "Invalid gate ID")
        ELSE IF ~apiOk
             THEN [Answer(op, req, 500, "Failed to " \o route \o " gate") EXCEPT !.call = sent]
        ELSE [Answer(op, req, 200, "Gate operation completed") EXCEPT
                 !.call = sent, !.gate_status = result]

GetGatesByLocationResult(locationIDStr, apiOk, ls) ==
    LET req == [NoReq EXCEPT !.path = locationIDStr, !.phone = ls.phone, !.id = ls.id]
        locationID == Atoi(locationIDStr)
        \* GetGatesByPhoneAndLocation: GET /locations/by-phone/<phone>/<locationID>
        sent == [NoCall EXCEPT !.method = "GET", !.route = "by-phone", !.id = locationID.n,
                               !.phone = ls.phone]
    IN  IF ~locationID.ok \/ locationID.n <= 0
        THEN Answer("GetGatesByLocation", req, 400, "Invalid location ID")
        ELSE IF ~apiOk
             THEN [Answer("GetGatesByLocation", req, 500, "Failed to fetch gates") EXCEPT
                      !.call = sent]
        ELSE [Answer("GetGatesByLocation", req, 200, "Gates retrieved successfully") EXCEPT
                 !.call = sent]

\* assigned is the set of gates that the third-party service has assigned
\* to the phone of the request; no handler reads it.
OpenGate(gateIDStr, apiOk, result, assigned) ==
    /\ locals.passed = "JWTProtected"
    /\ resp' = [GateActionResult("OpenGate", gateIDStr, apiOk, result, locals) EXCEPT
                   !.req.assigned = assigned]
    /\ locals' = NoLocals
    /\ UNCHANGED <<inflight, users, admins, now, held>>

CloseGate(gateIDStr, apiOk, result, assigned) ==
    /\ locals.passed = "JWTProtected"
    /\ resp' = [GateActionResult("CloseGate", gateIDStr, apiOk, result, locals) EXCEPT
                   !.req.assigned = assigned]
    /\ locals' = NoLocals
    /\ UNCHANGED <<inflight, users, admins, now, held>>

GetGatesByLocation(locationIDStr, apiOk, assigned) ==
    /\ locals.passed = "JWTProtected"
    /\ resp' = [GetGatesByLocationResult(locationIDStr, apiOk, locals) EXCEPT
                   !.req.assigned = assigned]
    /\ locals' = NoLocals
    /\ UNCHANGED <<inflight, users, admins, now, held>>

(***************************************************************************)
(* Handlers served concurrently.  Each request runs in a goroutine of its  *)
(* own and nothing serializes two handlers between the First that reads a  *)
(* row into a struct and the Save that writes every column of the struct   *)
(* back.  A ...Read step is the handler up to its First; the ...Save step  *)
(* is the rest of it, computed from the struct that was read.              *)
(***************************************************************************)
\* A handler that reads its row again at the moment it saves.
AsReadAtSave(table, row) == table

\* The table with the row of the request as the handler has read it.
AsRead(table, row) == [table EXCEPT ![inflight.id] = row]

LoginRead(phone, password, deviceID) ==
    /\ inflight = NoFlight
    /\ phoneRegex(phone)
    /\ UsersByPhone(users, phone) # {}
    /\ LET id == CHOOSE i \in UsersByPhone(users, phone) : TRUE
       IN  inflight' = [NoFlight EXCEPT !.op = "Login", !.id = id, !.user = users[id],
                           !.req = [NoReq EXCEPT !.phone = phone, !.password = password,
                                                 !.device = deviceID]]
    /\ resp' = Idle
    /\ locals' = NoLocals
    /\ UNCHANGED <<users, admins, now, held>>

LoginSave(saveOk) ==
    LET q == inflight.req
        r == LoginResult(TRUE, q.phone, q.password, q.device, saveOk,
                         AsRead(users, inflight.user), now)
    IN  /\ inflight.op = "Login"
        /\ VersionsInBound(r.users)
        /\ users' = IF r.answer.status = 200
                    THEN [users EXCEPT ![inflight.id] = r.users[inflight.id]]
                    ELSE users
        /\ resp' = r.answer
        /\ locals' = NoLocals
        /\ inflight' = NoFlight
        /\ UNCHANGED <<admins, now, held>>

UpdateUserRead(userID, phone, password) ==
    /\ inflight = NoFlight
    /\ locals.passed = "AdminJWTProtected"
    /\ LiveUser(users, userID)
    /\ inflight' = [NoFlight EXCEPT !.op = "UpdateUser", !.id = userID, !.user = users[userID],
                        !.ls = locals,
                        !.req = [NoReq EXCEPT !.id = userID, !.phone = phone,
                                              !.password = password]]
    /\ resp' = Idle
    /\ locals' = NoLocals
    /\ UNCHANGED <<users, admins, now, held>>

UpdateUserSave(hasLocations, assignOk, saveOk) ==
    LET q == inflight.req
        r == UpdateUserResult(TRUE, q.id, TRUE, q.phone, q.password, hasLocations, assignOk,
                              saveOk, AsRead(users, inflight.user))
    IN  /\ inflight.op = "UpdateUser"
        /\ VersionsInBound(r.users)
        /\ users' = IF r.answer.status = 200
                    THEN [users EXCEPT ![inflight.id] = r.users[inflight.id]]
                    ELSE users
        /\ resp' = r.answer
        /\ locals' = NoLocals
        /\ inflight' = NoFlight
        /\ UNCHANGED <<admins, now, held>>

AdminLoginRead(username, password) ==
    /\ inflight = NoFlight
    /\ username # "" /\ password # ""
    /\ AdminsByUsername(admins, username) # {}
    /\ LET id == CHOOSE i \in AdminsByUsername(admins, username) : TRUE
       IN  inflight' = [NoFlight EXCEPT !.op = "AdminLogin", !.id = id, !.admin = admins[id],
                           !.req = [NoReq EXCEPT !.username = username, !.password = password]]
    /\ resp' = Idle
    /\ locals' = NoLocals
    /\ UNCHANGED <<users, admins, now, held>>

AdminLoginSave(saveOk) ==
    LET q == inflight.req
        r == AdminLoginResult(TRUE, q.username, q.password, saveOk,
                              AsRead(admins, inflight.admin), now)
    IN  /\ inflight.op = "AdminLogin"
        /\ VersionsInBound(r.admins)
        /\ admins' = IF r.answer.status = 200
                     THEN [admins EXCEPT ![inflight.id] = r.admins[inflight.id]]
                     ELSE admins
        /\ resp' = r.answer
        /\ locals' = NoLocals
        /\ inflight' = NoFlight
        /\ UNCHANGED <<users, now, held>>

UpdateAdminRead(adminID, password, username, role) ==
    /\ inflight = NoFlight
    /\ locals.passed = "AdminJWTProtected"
    /\ LiveAdmin(admins, adminID)
    /\ inflight' = [NoFlight EXCEPT !.op = "UpdateAdmin", !.id = adminID, !.admin = admins[adminID],
                        !.ls = locals,
                        !.req = [NoReq EXCEPT !.id = adminID, !.password = password,
                                              !.username = username, !.role = role]]
    /\ resp' = Idle
    /\ locals' = NoLocals
    /\ UNCHANGED <<users, admins, now, held>>

UpdateAdminSave(saveOk) ==
    LET q == inflight.req
        r == UpdateAdminResult(TRUE, q.id, TRUE, q.password, q.username, q.role, saveOk,
                               inflight.ls, AsRead(admins, inflight.admin))
    IN  /\ inflight.op = "UpdateAdmin"
        /\ admins' = IF r.answer.status = 200
                     THEN [admins EXCEPT ![inflight.id] = r.admins[inflight.id]]
                     ELSE admins
        /\ resp' = r.answer
        /\ locals' = NoLocals
        /\ inflight' = NoFlight
        /\ UNCHANGED <<users, now, held>>

\* The process starts, or starts again: a request that was being served is
\* lost, the tables and the tokens of the clients remain.
CreateInitialAdmin(createOk) ==
    LET r == CreateInitialAdminResult(createOk, admins)
    IN  /\ admins' = r.admins
        /\ resp' = r.answer
        /\ locals' = NoLocals
        /\ UNCHANGED <<inflight, users, now, held>>

\* The client keeps one of the tokens it was just given.
\* A call of generateToken at the present instant; the caller keeps the
\* token.
generateTokenCall(userID, phone, tokenVersion, tokenType) ==
    LET expiry == IF tokenType = RefreshTokenType THEN RefreshExpiry ELSE AccessExpiry
        req == [NoReq EXCEPT !.id = userID, !.phone = phone, !.ver = tokenVersion,
                             !.kind = tokenType]
    IN  /\ held' = generateToken(userID, phone, tokenVersion, tokenType, expiry, now)
        /\ resp' = Answer("generateToken", req, 0, "")
        /\ locals' = NoLocals
        /\ UNCHANGED <<inflight, users, admins, now>>

\* A call of GenerateAdminToken at the present instant.
GenerateAdminTokenCall(adminID, username, role, tokenVersion) ==
    LET req == [NoReq EXCEPT !.id = adminID, !.username = username, !.role = role,
                             !.ver = tokenVersion, !.kind = AdminToken]
    IN  /\ held' = GenerateAdminToken(adminID, username, role, tokenVersion, now)
        /\ resp' = Answer("GenerateAdminToken", req, 0, "")
        /\ locals' = NoLocals
        /\ UNCHANGED <<inflight, users, admins, now>>

\* A call of ValidateToken: the error ("ok" for nil) and the claims.
ValidateTokenCall(tok, expectedType) ==
    LET req == [NoReq EXCEPT !.token = tok, !.kind = expectedType]
    IN  /\ resp' = [Answer("ValidateToken", req, 0, ValidateToken(tok, expectedType, now))
                       EXCEPT !.claims = ValidateTokenClaims(tok, expectedType, now)]
        /\ locals' = NoLocals
        /\ UNCHANGED <<inflight, users, admins, now, held>>

\* A call of ValidateAdminToken.
ValidateAdminTokenCall(tok) ==
    LET req == [NoReq EXCEPT !.token = tok, !.kind = AdminToken]
    IN  /\ resp' = [Answer("ValidateAdminToken", req, 0, ValidateAdminToken(tok, now))
                       EXCEPT !.claims = ValidateAdminTokenClaims(tok, now)]
        /\ locals' = NoLocals
        /\ UNCHANGED <<inflight, users, admins, now, held>>

Keep(tok) ==
    /\ tok \in {resp.access_token, resp.refresh_token} \ {NoTok}
    /\ held' = tok
    /\ resp' = Idle
    /\ locals' = NoLocals
    /\ UNCHANGED <<inflight, users, admins, now>>

\* Time passes.
Tick ==
    /\ now < MaxTime
    /\ now' = now + 1
    /\ resp' = Idle
    /\ locals' = NoLocals
    /\ UNCHANGED <<inflight, users, admins, held>>

(***************************************************************************)
(* The state after startup: no user, and the initial super admin that      *)
(* CreateInitialAdmin has created.                                         *)
(***************************************************************************)
Init ==
    /\ users = [id \in UserIds |-> NoUser]
    /\ admins = [id \in AdminIds |->
                    IF id = InitAdminUUID
                    THEN NewAdmin(InitAdminUsername, InitAdminPassword, RoleSuper)
                    ELSE NoAdmin]
    /\ now = 0
    /\ held = NoTok
    /\ resp = Idle
    /\ locals = NoLocals
    /\ inflight = NoFlight

Devices == {"", "A", "B"}

(***************************************************************************)
(* Spec: the sessions of a user.  Logins with and without a device id,     *)
(* refreshes, the user guard, and the password reset and the deletion      *)
(* that an admin makes after logging in; the client keeps user tokens.     *)
(***************************************************************************)
LoginRequests ==
    ({PhoneA} \X Passwords \X Devices) \cup {<<PhoneB, "secret1", "">>}

Next ==
    \/ \E phone \in {PhoneA, PhoneNoPlus}, password \in {"secret1", ShortPassword},
          newID \in UserIds :
          Register(TRUE, phone, password, newID, TRUE)
    \/ \E q \in LoginRequests : Login(TRUE, q[1], q[2], q[3], TRUE)
    \/ \E tok \in Presentable : RefreshToken(TRUE, tok)
    \/ \E tok \in Presentable : JWTProtected("bearer", tok)
    \/ AdminLogin(TRUE, InitAdminUsername, InitAdminPassword, TRUE)
    \/ \E tok \in {resp.access_token} \ {NoTok} : AdminJWTProtected("bearer", tok)
    \/ \E userID \in UserIds, password \in {"", "secret2", ShortPassword} :
          UpdateUser(TRUE, userID, TRUE, NoPhone, password, FALSE, TRUE, TRUE)
    \/ \E userID \in UserIds : DeleteUser(TRUE, userID, TRUE, TRUE)
    \/ \E tok \in {resp.access_token, resp.refresh_token} :
          tok.kind # AdminToken /\ Keep(tok)
    \/ Tick

Spec == Init /\ [][Next]_vars

(***************************************************************************)
(* SpecAdmin: the sessions of an admin.                                    *)
(***************************************************************************)
AdminLoginRequests ==
    {<<InitAdminUsername, InitAdminPassword>>, <<InitAdminUsername, "wrong">>,
     <<"nobody", InitAdminPassword>>, <<"", InitAdminPassword>>}

NextAdmin ==
    \/ \E q \in AdminLoginRequests : AdminLogin(TRUE, q[1], q[2], TRUE)
    \/ \E tok \in Presentable : AdminJWTProtected("bearer", tok)
    \/ \E form \in HeaderForms \ {"bearer"} : AdminJWTProtected(form, NoTok)
    \/ \E tok \in {resp.access_token} : Keep(tok)
    \/ Tick

SpecAdmin == Init /\ [][NextAdmin]_vars

(***************************************************************************)
(* SpecGuard: both guards, against every kind of token and every way a     *)
(* principal's row changes under a token: logins, deletion of the user,    *)
(* deletion of the admin, expiry.                                          *)
(***************************************************************************)
NextGuard ==
    \/ \E newID \in UserIds : Register(TRUE, PhoneA, "secret1", newID, TRUE)
    \/ Login(TRUE, PhoneA, "secret1", "", TRUE)
    \/ AdminLogin(TRUE, InitAdminUsername, InitAdminPassword, TRUE)
    \/ \E tok \in Presentable : JWTProtected("bearer", tok)
    \/ \E form \in HeaderForms \ {"bearer"} : JWTProtected(form, NoTok)
    \/ \E tok \in Presentable : AdminJWTProtected("bearer", tok)
    \/ \E form \in HeaderForms \ {"bearer"} : AdminJWTProtected(form, NoTok)
    \/ SuperAdminOnly
    \/ \E userID \in UserIds : DeleteUser(TRUE, userID, TRUE, TRUE)
    \/ \E adminID \in AdminIds : DeleteAdmin(TRUE, adminID, TRUE)
    \/ \E tok \in {resp.access_token, resp.refresh_token} : Keep(tok)
    \/ Tick

SpecGuard == Init /\ [][NextGuard]_vars

(***************************************************************************)
(* SpecCodec: the token functions called directly, as the handlers and the *)
(* unit tests call them, on every id, phone, type and version, and the     *)
(* refresh operation and the guards on the tokens so minted, with a user   *)
(* registered and logged in.                                               *)
(***************************************************************************)
TokenTypes == {AccessToken, RefreshTokenType, AdminToken}

CodecUserIds == {"u1", "u9"}

NextCodec ==
    \/ Register(TRUE, PhoneA, "secret1", "u1", TRUE)
    \/ Login(TRUE, PhoneA, "secret1", "", TRUE)
    \/ \E userID \in CodecUserIds, phone \in {PhoneA, PhoneB},
          tokenVersion \in 0..MaxVersion, tokenType \in TokenTypes :
          generateTokenCall(userID, phone, tokenVersion, tokenType)
    \/ \E adminID \in AdminIds, username \in {InitAdminUsername, "bob"},
          role \in {RoleSuper, RoleRegular}, tokenVersion \in 0..MaxVersion :
          GenerateAdminTokenCall(adminID, username, role, tokenVersion)
    \/ \E expectedType \in TokenTypes : held # NoTok /\ ValidateTokenCall(held, expectedType)
    \/ held # NoTok /\ ValidateAdminTokenCall(held)
    \/ held # NoTok /\ RefreshToken(TRUE, held)
    \/ held # NoTok /\ JWTProtected("bearer", held)
    \/ held # NoTok /\ AdminJWTProtected("bearer", held)
    \/ Tick

SpecCodec == Init /\ [][NextCodec]_vars

(***************************************************************************)
(* SpecLogin: both logins with known and unknown identities, right, wrong  *)
(* and empty passwords, before and after the deletion of the user.         *)
(***************************************************************************)
NextLogin ==
    \/ Register(TRUE, PhoneA, "secret1", "u1", TRUE)
    \/ \E phone \in {PhoneA, PhoneB}, password \in Passwords \cup {""}, deviceID \in Devices :
          Login(TRUE, phone, password, deviceID, TRUE)
    \/ \E username \in {InitAdminUsername, "nobody", ""},
          password \in {InitAdminPassword, "wrong", ""} :
          AdminLogin(TRUE, username, password, TRUE)
    \/ \E tok \in {held} \ {NoTok} : AdminJWTProtected("bearer", tok)
    \/ DeleteUser(TRUE, "u1", TRUE, TRUE)
    \/ \E tok \in {resp.access_token} : tok.kind = AdminToken /\ Keep(tok)

SpecLogin == Init /\ [][NextLogin]_vars

(***************************************************************************)
(* SpecRoles: the management of admins.  The initial super admin and a     *)
(* second admin log in, pass the guards with the token they kept, and      *)
(* create, read, update and delete admin records.                          *)
(***************************************************************************)
RoleLoginRequests ==
    {<<InitAdminUsername, InitAdminPassword>>, <<InitAdminUsername, "secret2">>,
     <<"bob", "secret1">>, <<"bob", "secret2">>}

NextRoles ==
    \/ \E q \in RoleLoginRequests : AdminLogin(TRUE, q[1], q[2], TRUE)
    \/ \E tok \in Given : AdminJWTProtected("bearer", tok)
    \/ AdminJWTProtected("missing", NoTok)
    \/ SuperAdminOnly
    \/ SuperAdminOnlyFirst
    \/ \E password \in {"secret1", ShortPassword}, role \in {RoleSuper, RoleRegular, "root"},
          newID \in AdminIds :
          CreateAdmin(TRUE, "bob", password, role, newID, TRUE)
    \/ \E adminID \in AdminIds : GetAdminByID(TRUE, adminID)
    \/ \E adminID \in AdminIds, password \in {Absent, "secret2"},
          role \in {Absent, RoleSuper, RoleRegular} :
          UpdateAdmin(TRUE, adminID, TRUE, password, Absent, role, TRUE)
    \/ \E adminID \in AdminIds : DeleteAdmin(TRUE, adminID, TRUE)
    \/ \E tok \in {resp.access_token} : Keep(tok)

SpecRoles == Init /\ [][NextRoles]_vars

(***************************************************************************)
(* SpecStartup: the management of admins from the first start on tables    *)
(* that AutoMigrate has just created, with restarts of the process at any  *)
(* moment.  Requests are served once CreateInitialAdmin has returned; after *)
(* log.Fatalf the process is down until it is started again.               *)
(***************************************************************************)
InitFresh ==
    /\ users = [id \in UserIds |-> NoUser]
    /\ admins = [id \in AdminIds |-> NoAdmin]
    /\ now = 0
    /\ held = NoTok
    /\ resp = Idle
    /\ locals = NoLocals
    /\ inflight = NoFlight

Serving ==
    /\ admins[InitAdminUUID].exists
    /\ ~(resp.op = "CreateInitialAdmin" /\ resp.status # 0)

NextStartup ==
    \/ CreateInitialAdmin(TRUE)
    \/ Serving /\ NextRoles

SpecStartup == InitFresh /\ [][NextStartup]_vars

(***************************************************************************)
(* SpecVersions: every operation that reads or writes a principal's row,   *)
(* with database writes and third-party calls that may fail.               *)
(***************************************************************************)
NextVersions ==
    \/ \E newID \in UserIds, createOk \in BOOLEAN :
          Register(TRUE, PhoneA, "secret1", newID, createOk)
    \/ \E newID \in UserIds, hasLocations \in BOOLEAN :
          CreateUser(TRUE, PhoneA, "secret1", newID, TRUE, hasLocations, FALSE)
    \/ \E password \in Passwords, deviceID \in {"", "A"}, saveOk \in BOOLEAN :
          Login(TRUE, PhoneA, password, deviceID, saveOk)
    \/ \E tok \in {resp.refresh_token} \ {NoTok} : RefreshToken(TRUE, tok)
    \/ \E tok \in {resp.access_token} \ {NoTok} : JWTProtected("bearer", tok)
    \/ \E saveOk \in BOOLEAN : AdminLogin(TRUE, InitAdminUsername, InitAdminPassword, saveOk)
    \/ \E tok \in {held} \ {NoTok} : AdminJWTProtected("bearer", tok)
    \/ SuperAdminOnly
    \/ \E userID \in UserIds, phone \in {NoPhone, PhoneB}, password \in {"", "secret2"},
          hasLocations, saveOk \in BOOLEAN :
          UpdateUser(TRUE, userID, TRUE, phone, password, hasLocations, TRUE, saveOk)
    \/ \E userID \in UserIds, saveOk, deleteOk \in BOOLEAN : DeleteUser(TRUE, userID, saveOk, deleteOk)
    \/ \E newID \in AdminIds : CreateAdmin(TRUE, "bob", "secret1", RoleRegular, newID, TRUE)
    \/ \E adminID \in AdminIds : GetAdminByID(TRUE, adminID)
    \/ \E adminID \in AdminIds, password \in {Absent, "secret1"}, saveOk \in BOOLEAN :
          UpdateAdmin(TRUE, adminID, TRUE, password, Absent, Absent, saveOk)
    \/ \E deleteOk \in BOOLEAN : DeleteAdmin(TRUE, "a1", deleteOk)
    \/ \E tok \in {resp.access_token} : tok.kind = AdminToken /\ Keep(tok)

SpecVersions == Init /\ [][NextVersions]_vars

(***************************************************************************)
(* SpecDeleted: deletion of users and admins, with ids left for the        *)
(* accounts that are created after a deletion with the phone or the        *)
(* username of the deleted one.                                            *)
(***************************************************************************)
ReuseUserIds == {"u1", "u2"}
ReuseAdminIds == {InitAdminUUID, "a1", "a2"}

InitDeleted ==
    /\ users = [id \in ReuseUserIds |-> NoUser]
    /\ admins = [id \in ReuseAdminIds |->
                    IF id = InitAdminUUID
                    THEN NewAdmin(InitAdminUsername, InitAdminPassword, RoleSuper)
                    ELSE NoAdmin]
    /\ now = 0
    /\ held = NoTok
    /\ resp = Idle
    /\ locals = NoLocals
    /\ inflight = NoFlight

\* The ids are drawn in order: the second only once the first is taken.
NextDeleted ==
    \/ \E newID \in ReuseUserIds :
          (newID = "u1" \/ users["u1"].exists) /\ Register(TRUE, PhoneA, "secret1", newID, TRUE)
    \/ \E password \in Passwords : Login(TRUE, PhoneA, password, "A", TRUE)
    \/ \E tok \in Given : RefreshToken(TRUE, tok)
    \/ \E tok \in Given : JWTProtected("bearer", tok)
    \/ AdminLogin(TRUE, InitAdminUsername, InitAdminPassword, TRUE)
    \/ AdminLogin(TRUE, "bob", "secret1", TRUE)
    \/ \E tok \in Given : AdminJWTProtected("bearer", tok)
    \/ SuperAdminOnly
    \/ \E userID \in ReuseUserIds : DeleteUser(TRUE, userID, TRUE, TRUE)
    \/ \E newID \in ReuseAdminIds :
          (newID = "a1" \/ admins["a1"].exists) /\ CreateAdmin(TRUE, "bob", "secret1", RoleSuper, newID, TRUE)
    \/ \E adminID \in ReuseAdminIds \ {InitAdminUUID} : DeleteAdmin(TRUE, adminID, TRUE)
    \/ \E tok \in {resp.access_token, resp.refresh_token} : Keep(tok)

SpecDeleted == InitDeleted /\ [][NextDeleted]_vars

(***************************************************************************)
(* SpecConcurrent: one request at a time is served in two steps, and the   *)
(* other requests for the same user or admin are served between the two.   *)
(* No row is deleted while a request is between its two steps.             *)
(***************************************************************************)
NextConcurrent ==
    \/ Register(TRUE, PhoneA, "secret1", "u1", TRUE)
    \/ \E deviceID \in {"", "A"} : Login(TRUE, PhoneA, "secret1", deviceID, TRUE)
    \/ \E deviceID \in {"", "A"} : LoginRead(PhoneA, "secret1", deviceID)
    \/ LoginSave(TRUE)
    \/ \E tok \in Given : JWTProtected("bearer", tok)
    \/ AdminLogin(TRUE, InitAdminUsername, InitAdminPassword, TRUE)
    \/ AdminLoginRead(InitAdminUsername, InitAdminPassword)
    \/ AdminLoginSave(TRUE)
    \/ \E tok \in Given : AdminJWTProtected("bearer", tok)
    \/ UpdateUserRead("u1", NoPhone, "")
    \/ UpdateUserSave(TRUE, TRUE, TRUE)
    \/ UpdateAdminRead(InitAdminUUID, Absent, InitAdminUsername, Absent)
    \/ UpdateAdminSave(TRUE)
    \/ inflight = NoFlight /\ DeleteUser(TRUE, "u1", TRUE, TRUE)
    \/ \E tok \in {resp.access_token} : Keep(tok)
    \/ Tick

SpecConcurrent == Init /\ [][NextConcurrent]_vars

(***************************************************************************)
(* SpecTamper: tokens are minted and then presented to the two validation  *)
(* functions as minted, or with one character changed or appended.  A      *)
(* change in the header or the payload changes what they decode to and     *)
(* leaves the signature of the old text (key "stale"); a change in the     *)
(* signature changes its bytes, or only the bits of pad.                   *)
(***************************************************************************)
Stale(tok) == [tok EXCEPT !.key = "stale"]

OneCharacterChanged(str) ==
    {[str EXCEPT !.tok = Stale(@)]}
    \cup {[str EXCEPT !.tok = Stale([@ EXCEPT !.ver = v])] : v \in (0..MaxVersion) \ {str.tok.ver}}
    \cup {[str EXCEPT !.tok = Stale([@ EXCEPT !.kind = k])] :
              k \in {AccessToken, RefreshTokenType, AdminToken} \ {str.tok.kind}}
    \cup {[str EXCEPT !.tok = Stale([@ EXCEPT !.role = r])] :
              r \in {RoleSuper, RoleRegular} \ {str.tok.role}}
    \cup {[str EXCEPT !.tok = Stale([@ EXCEPT !.id = i])] :
              i \in (UserIds \cup AdminIds) \ {str.tok.id}}
    \cup {[str EXCEPT !.tok = Stale([@ EXCEPT !.alg = "none"])]}
    \cup {[str EXCEPT !.pad = p] : p \in (0..3) \ {str.pad}}

OneCharacterAppended(str) == {[str EXCEPT !.tail = Append(@, c)] : c \in AppendChars}

Tampered(str) == OneCharacterChanged(str) \cup OneCharacterAppended(str)

NextTamper ==
    \/ \E tokenVersion \in 0..MaxVersion, tokenType \in {AccessToken, RefreshTokenType} :
          generateTokenCall("u1", PhoneA, tokenVersion, tokenType)
    \/ \E role \in {RoleSuper, RoleRegular}, tokenVersion \in 0..MaxVersion :
          GenerateAdminTokenCall("a1", "bob", role, tokenVersion)
    \/ \E str \in {SignedString(held)} \cup Tampered(SignedString(held)),
          expectedType \in {AccessToken, RefreshTokenType} :
          held # NoTok /\ ValidateTokenStringCall(str, expectedType)
    \/ \E str \in {SignedString(held)} \cup Tampered(SignedString(held)) :
          held # NoTok /\ ValidateAdminTokenStringCall(str)
    \/ Tick

SpecTamper == Init /\ [][NextTamper]_vars

(***************************************************************************)
(* SpecExpiry: the sessions of a user on a clock that runs past the expiry *)
(* of the refresh tokens of the first instants.                            *)
(***************************************************************************)
ExpiryHorizon == RefreshExpiry + 1

\* Time passes, up to the horizon.
TickToHorizon ==
    /\ now < ExpiryHorizon
    /\ now' = now + 1
    /\ resp' = Idle
    /\ locals' = NoLocals
    /\ UNCHANGED <<inflight, users, admins, held>>

NextExpiry ==
    \/ Register(TRUE, PhoneA, "secret1", "u1", TRUE)
    \/ \E deviceID \in {"", "A"} : Login(TRUE, PhoneA, "secret1", deviceID, TRUE)
    \/ \E tok \in Given : RefreshToken(TRUE, tok)
    \/ \E tok \in Given : JWTProtected("bearer", tok)
    \/ \E tok \in Given, expectedType \in {AccessToken, RefreshTokenType} :
          ValidateTokenCall(tok, expectedType)
    \/ \E tok \in {resp.access_token, resp.refresh_token} : Keep(tok)
    \/ TickToHorizon

SpecExpiry == Init /\ [][NextExpiry]_vars

(***************************************************************************)
(* SpecGates: a user logs in and sends gate requests with ids of every     *)
(* shape, to a third-party service that has assigned any set of the gates  *)
(* to the phone of the user.                                               *)
(***************************************************************************)
Gates == {1, 2}

PathIds ==
    {<<"1">>, <<"2">>, <<"+", "1">>, <<"0", "2">>, <<"0">>, <<"-", "1">>, <<"-", "0">>,
     <<"a">>, <<"1", ".", "5">>, <<"1", "a">>, <<"-">>, <<" ", "1">>}

NextGates ==
    \/ Register(TRUE, PhoneA, "secret1", "u1", TRUE)
    \/ Login(TRUE, PhoneA, "secret1", "", TRUE)
    \/ \E tok \in Given : JWTProtected("bearer", tok)
    \/ \E gateIDStr \in PathIds, apiOk, result \in BOOLEAN, assigned \in SUBSET Gates :
          OpenGate(gateIDStr, apiOk, result, assigned)
    \/ \E gateIDStr \in PathIds, apiOk, result \in BOOLEAN, assigned \in SUBSET Gates :
          CloseGate(gateIDStr, apiOk, result, assigned)
    \/ \E locationIDStr \in PathIds, apiOk \in BOOLEAN, assigned \in SUBSET Gates :
          GetGatesByLocation(locationIDStr, apiOk, assigned)
    \/ \E tok \in {resp.access_token} : Keep(tok)

SpecGates == Init /\ [][NextGates]_vars

(***************************************************************************)
(* SpecPhone: a user logs in and keeps the tokens, and an admin changes    *)
(* the phone or the password of the user.                                  *)
(***************************************************************************)
NextPhone ==
    \/ Register(TRUE, PhoneA, "secret1", "u1", TRUE)
    \/ \E phone \in {PhoneA, PhoneB}, deviceID \in {"", "A"} :
          Login(TRUE, phone, "secret1", deviceID, TRUE)
    \/ \E tok \in Presentable : JWTProtected("bearer", tok)
    \/ \E tok \in Presentable : RefreshToken(TRUE, tok)
    \/ AdminLogin(TRUE, InitAdminUsername, InitAdminPassword, TRUE)
    \/ \E tok \in {resp.access_token} \ {NoTok} : AdminJWTProtected("bearer", tok)
    \/ \E phone \in {NoPhone, PhoneA, PhoneB, PhoneNoPlus}, password \in {"", "secret2"} :
          UpdateUser(TRUE, "u1", TRUE, phone, password, FALSE, TRUE, TRUE)
    \/ \E tok \in {resp.access_token, resp.refresh_token} :
          tok.kind # AdminToken /\ Keep(tok)
    \/ Tick

SpecPhone == Init /\ [][NextPhone]_vars

(***************************************************************************)
(* SpecIdentity: the operations that create, rename and delete users and   *)
(* admins, with two ids for users and three for admins.                    *)
(***************************************************************************)
NextIdentity ==
    \/ \E newID \in ReuseUserIds, phone \in {PhoneA, PhoneNoPlus},
          password \in {"secret1", ShortPassword}, createOk \in BOOLEAN :
          (newID = "u1" \/ users["u1"].exists) /\ Register(TRUE, phone, password, newID, createOk)
    \/ \E newID \in ReuseUserIds, phone \in {PhoneA, PhoneB} :
          /\ newID = "u1" \/ users["u1"].exists
          /\ CreateUser(TRUE, phone, "secret1", newID, TRUE, FALSE, TRUE)
    \/ \E userID \in ReuseUserIds, phone \in {NoPhone, PhoneA, PhoneB, PhoneNoPlus} :
          UpdateUser(TRUE, userID, TRUE, phone, "", TRUE, TRUE, TRUE)
    \/ \E userID \in ReuseUserIds : DeleteUser(TRUE, userID, TRUE, TRUE)
    \/ admins[InitAdminUUID].TokenVersion = 0
          /\ AdminLogin(TRUE, InitAdminUsername, InitAdminPassword, TRUE)
    \/ \E tok \in {held} \ {NoTok} : AdminJWTProtected("bearer", tok)
    \/ SuperAdminOnly
    \/ \E newID \in ReuseAdminIds, username \in {"bob", InitAdminUsername} :
          /\ newID = "a1" \/ admins["a1"].exists
          /\ CreateAdmin(TRUE, username, "secret1", RoleRegular, newID, TRUE)
    \/ \E adminID \in ReuseAdminIds, username \in {Absent, "bob", InitAdminUsername, "carol"},
          password \in {Absent, "secret2"} :
          UpdateAdmin(TRUE, adminID, TRUE, password, username, Absent, TRUE)
    \/ \E adminID \in ReuseAdminIds \ {InitAdminUUID} : DeleteAdmin(TRUE, adminID, TRUE)
    \/ \E tok \in {resp.access_token} : tok.kind = AdminToken /\ Keep(tok)

SpecIdentity == InitDeleted /\ [][NextIdentity]_vars

(***************************************************************************)
(* The properties.  resp holds the answer to the last request, so a step   *)
(* with resp'.op = "Login" is a Login request served in the unprimed state.*)
(***************************************************************************)
Invalidated == "Token has been invalidated. Please login again."

\* What the user guard and the refresh endpoint answer to a bearer of tok.
GuardStatus(tok, us, t) == JWTProtectedResult("bearer", tok, us, t).answer.status
GuardMessage(tok, us, t) == JWTProtectedResult("bearer", tok, us, t).answer.message
AdminGuardStatus(tok, as, t) == AdminJWTProtectedResult("bearer", tok, as, t).answer.status
RefreshStatus(tok, us, t) == RefreshTokenResult(TRUE, tok, us, t).status

LoginSucceeds == resp'.op = "Login" /\ resp'.status = 200

\* Both tokens of a login answer carry the version v.
Stamped(answer, v) == answer.access_token.ver = v /\ answer.refresh_token.ver = v

\* A token of the user that the guard (the refresh endpoint) rejects is
\* still rejected after the step.
StaysRejected ==
    (held' = held /\ held # NoTok)
        => /\ GuardStatus(held, users, now) = 401 => GuardStatus(held, users', now') = 401
           /\ RefreshStatus(held, users, now) = 401 => RefreshStatus(held, users', now') = 401

(***************************************************************************)
(* C1.  A request passes JWTProtected (AdminJWTProtected) only if its      *)
(* bearer token is validly signed, of the access (admin) kind, unexpired   *)
(* for a user token, names a user (admin) that exists and is not deleted,  *)
(* and carries the version stored for it; every other request is answered  *)
(* 401 and the handler behind the guard does not run.                      *)
(***************************************************************************)
UserTokenAdmissible(tok) ==
    /\ tok.alg = HS256 /\ tok.key = Secret
    /\ tok.kind = AccessToken
    /\ now < tok.exp
    /\ tok.id \in UserIds /\ users[tok.id].exists /\ ~users[tok.id].DeletedAt
    /\ users[tok.id].TokenVersion = tok.ver

AdminTokenAdmissible(tok) ==
    /\ tok.alg = HS256 /\ tok.key = Secret
    /\ tok.kind = AdminToken
    /\ tok.id \in AdminIds /\ admins[tok.id].exists /\ ~admins[tok.id].DeletedAt
    /\ admins[tok.id].TokenVersion = tok.ver

C3_WitnessStoredDevice ==
    /\ resp.op = "Login" /\ resp.status = 200 /\ resp.req.device = ""
    /\ users[resp.req.id].CurrentDeviceID = "A"
    /\ Stamped(resp, 1)

(***************************************************************************)
(* C4.  A successful Login with a non-empty device id that differs from a  *)
(* non-empty stored device increments the version by exactly one and       *)
(* stores the new device; a token issued before it is rejected by          *)
(* JWTProtected and by the refresh endpoint from then on.                  *)
(***************************************************************************)
C4_DeviceChangeIncrements ==
    [][ /\ (/\ LoginSucceeds
            /\ resp'.req.device # ""
            /\ users[resp'.req.id].CurrentDeviceID # ""
            /\ users[resp'.req.id].CurrentDeviceID # resp'.req.device) =>
            LET id == resp'.req.id IN
            /\ users'[id].TokenVersion = users[id].TokenVersion + 1
            /\ users'[id].CurrentDeviceID = resp'.req.device
            /\ Stamped(resp', users[id].TokenVersion + 1)
            /\ (held # NoTok /\ held.id = id) =>
                  /\ GuardStatus(held, users', now') = 401
                  /\ RefreshStatus(held, users', now') = 401
            /\ \A tok \in {resp.access_token, resp.refresh_token} \ {NoTok} :
                  tok.id = id => /\ GuardStatus(tok, users', now') = 401
                                 /\ RefreshStatus(tok, users', now') = 401
        /\ StaysRejected
      ]_vars

\* After a login from device B over the stored device A, the guard has
\* turned away the unexpired access token of the login from A.
C4_Witness ==
    /\ resp.op = "JWTProtected" /\ resp.status = 401 /\ resp.message = Invalidated
    /\ resp.req.token = held /\ held.kind = AccessToken /\ now < held.exp
    /\ users[held.id].CurrentDeviceID = "B"
    /\ users[held.id].TokenVersion = held.ver + 1
    /\ users[held.id].Password = HashPassword("secret1")
    /\ ~users[held.id].DeletedAt

(***************************************************************************)
(* C5.  A successful Login with a device id equal to the stored device     *)
(* leaves the version unchanged: the new tokens carry the version already  *)
(* stored, and a token that passed the guard (the refresh endpoint) before *)
(* the login passes it after.                                              *)
(***************************************************************************)
C5_SameDeviceKeepsVersion ==
    [][ (/\ LoginSucceeds
         /\ resp'.req.device # ""
         /\ users[resp'.req.id].CurrentDeviceID = resp'.req.device) =>
            LET id == resp'.req.id IN
            /\ users'[id].TokenVersion = users[id].TokenVersion
            /\ users'[id].CurrentDeviceID = resp'.req.device
            /\ Stamped(resp', users[id].TokenVersion)
            /\ (held # NoTok /\ held.id = id) =>
                  /\ GuardStatus(held, users, now) = 200 => GuardStatus(held, users', now') = 200
                  /\ RefreshStatus(held, users, now) = 200 => RefreshStatus(held, users', now') = 200
      ]_vars

\* A second login from device A, one tick after the login whose refresh
\* token the client kept: the answer carries the version of the kept token,
\* and the kept token still passes the refresh endpoint.
C5_Witness ==
    /\ resp.op = "Login" /\ resp.status = 200 /\ resp.req.device = "A"
    /\ held.kind = RefreshTokenType /\ held.id = resp.req.id /\ held.iat < now
    /\ Stamped(resp, held.ver)
    /\ RefreshStatus(held, users, now) = 200
    /\ users[resp.req.id].CurrentDeviceID = "A"

(***************************************************************************)
(* C6.  The first logins of a new user, whose version is 0 and who has no  *)
(* stored device.                                                          *)
(***************************************************************************)
\* A user as Register leaves it, but for the device that logins have stored
\* without ever incrementing the version.
NeverIncremented(user) ==
    user.exists /\ ~user.DeletedAt /\ user.TokenVersion = 0

\* C6 as stated: the first login with device A makes the version 1 and
\* stores A, a second login with A leaves it at 1, and a login with B
\* makes it 2.
C6_FirstDeviceLoginIncrements ==
    [][ (LoginSucceeds /\ resp'.req.device # "") =>
            LET id == resp'.req.id
                device == resp'.req.device
            IN  /\ (NeverIncremented(users[id]) /\ users[id].CurrentDeviceID = "")
                       => /\ users'[id].TokenVersion = 1
                          /\ users'[id].CurrentDeviceID = device
                /\ (users[id].TokenVersion = 1 /\ users[id].CurrentDeviceID = device)
                       => users'[id].TokenVersion = 1
                /\ (users[id].TokenVersion = 1 /\ users[id].CurrentDeviceID \notin {"", device})
                       => users'[id].TokenVersion = 2
      ]_vars

\* C6 as the code has it: the first login with device A leaves the
\* version at 0 and stores A, a second login with A leaves it at 0, and a
\* login with B then makes it 1 and stores B.
C6_FirstDeviceLoginKeepsVersion ==
    [][ (LoginSucceeds /\ resp'.req.device # "") =>
            LET id == resp'.req.id
                device == resp'.req.device
            IN  /\ (NeverIncremented(users[id]) /\ users[id].CurrentDeviceID = "")
                       => /\ users'[id].TokenVersion = 0
                          /\ users'[id].CurrentDeviceID = device
                          /\ Stamped(resp', 0)
                /\ (NeverIncremented(users[id]) /\ users[id].CurrentDeviceID = device)
                       => /\ users'[id].TokenVersion = 0
                          /\ users'[id].CurrentDeviceID = device
                          /\ Stamped(resp', 0)
                /\ (NeverIncremented(users[id]) /\ users[id].CurrentDeviceID \notin {"", device})
                       => /\ users'[id].TokenVersion = 1
                          /\ users'[id].CurrentDeviceID = device
                          /\ Stamped(resp', 1)
      ]_vars

\* A login with device A has been answered with tokens of version 0, and A
\* is stored.
C6_Witness ==
    /\ resp.op = "Login" /\ resp.status = 200 /\ resp.req.device = "A"
    /\ users[resp.req.id].TokenVersion = 0
    /\ users[resp.req.id].CurrentDeviceID = "A"
    /\ Stamped(resp, 0)

(***************************************************************************)
(* C7.  What the refresh endpoint answers to a validly signed, unexpired   *)
(* refresh token whose version is no longer the stored one.                *)
(***************************************************************************)
\* The last request was a refresh with a signed, unexpired refresh token
\* whose user exists and whose version is not the stored one.
StaleRefresh ==
    /\ resp.op = "RefreshToken"
    /\ ValidateToken(resp.req.token, RefreshTokenType, now) = "ok"
    /\ users[resp.req.token.id].exists
    /\ users[resp.req.token.id].TokenVersion # resp.req.token.ver

C8_RefreshCopiesClaims ==
    (resp.op = "RefreshToken" /\ resp.status = 200) =>
        /\ resp.access_token # NoTok
        /\ resp.access_token.kind = AccessToken
        /\ resp.access_token.id = resp.req.token.id
        /\ resp.access_token.phone = resp.req.token.phone
        /\ resp.access_token.ver = resp.req.token.ver
        /\ resp.access_token.iat = now
        /\ resp.access_token.exp = now + AccessExpiry
        /\ resp.access_token.alg = HS256 /\ resp.access_token.key = Secret
        /\ resp.refresh_token = NoTok

\* A refresh, one tick after the login, with a refresh token of version 2.
C8_Witness ==
    /\ resp.op = "RefreshToken" /\ resp.status = 200
    /\ resp.req.token.kind = RefreshTokenType
    /\ resp.req.token.iat < now
    /\ resp.req.token.ver = 2
    /\ resp.access_token.exp > resp.req.token.iat + AccessExpiry

(***************************************************************************)
(* C9.  A password reset through UpdateUser increases the user's version   *)
(* by exactly one; an access token issued before it is rejected by         *)
(* JWTProtected from then on, with the invalidated message while the       *)
(* token is otherwise acceptable.                                          *)
(***************************************************************************)
C9_PasswordResetInvalidates ==
    [][ /\ (resp'.op = "UpdateUser" /\ resp'.status = 200 /\ resp'.req.password # "") =>
            LET id == resp'.req.id IN
            /\ users'[id].TokenVersion = users[id].TokenVersion + 1
            /\ users'[id].Password = HashPassword(resp'.req.password)
            /\ (held.kind = AccessToken /\ held.id = id) =>
                  /\ GuardStatus(held, users', now') = 401
                  /\ ValidateToken(held, AccessToken, now') = "ok"
                        => GuardMessage(held, users', now') = Invalidated
        /\ StaysRejected
      ]_vars

\* The guard has refused, as invalidated, the unexpired access token of a
\* login that preceded the reset.
C9_Witness ==
    /\ resp.op = "JWTProtected" /\ resp.status = 401 /\ resp.message = Invalidated
    /\ resp.req.token = held /\ held.kind = AccessToken /\ now < held.exp
    /\ users[held.id].Password = HashPassword("secret2")
    /\ users[held.id].TokenVersion = held.ver + 1

(***************************************************************************)
(* C10.  The login that follows a password reset which moved the version   *)
(* from 0 to 1.                                                            *)
(***************************************************************************)
\* In these sessions a reset always sets the password "secret2", and each
\* reset increments the version: a user at version 1 with that password
\* has had one reset, from version 0, and no other increment.
ResetFromZero(user) ==
    /\ user.exists /\ ~user.DeletedAt
    /\ user.TokenVersion = 1
    /\ user.Password = HashPassword("secret2")

LoginAfterReset ==
    /\ resp'.op = "Login"
    /\ resp'.req.phone = PhoneA /\ resp'.req.password = "secret2"
    /\ ResetFromZero(users["u1"])

C11_AdminPasswordKeepsVersion ==
    [][ (resp'.op = "UpdateAdmin" /\ resp'.status = 200 /\ resp'.req.password # Absent) =>
            LET id == resp'.req.id IN
            /\ admins'[id].TokenVersion = admins[id].TokenVersion
            /\ admins'[id].Password = HashPassword(resp'.req.password)
            /\ (held.kind = AdminToken /\ held.id = id /\ AdminGuardStatus(held, admins, now) = 200)
                   => AdminGuardStatus(held, admins', now') = 200
      ]_vars

\* The guard has let through the token of the initial admin's only login,
\* after that admin's password was changed.
C11_Witness ==
    /\ resp.op = "AdminJWTProtected" /\ resp.status = 200 /\ resp.req.token = held
    /\ held.id = InitAdminUUID /\ held.ver = 1
    /\ admins[InitAdminUUID].TokenVersion = 1
    /\ admins[InitAdminUUID].Password = HashPassword("secret2")

(***************************************************************************)
(* C12.  A successful registration stores the phone and the password, and  *)
(* a Login with the credentials a live user's row holds succeeds and       *)
(* returns an access and a refresh token, both stamped with the version    *)
(* stored right after that login.                                          *)
(***************************************************************************)
C12_LoginAfterRegister ==
    [][ /\ (resp'.op = "Register" /\ resp'.status = 201) =>
              \E id \in UserIds :
                  /\ ~users[id].exists
                  /\ LiveUser(users', id)
                  /\ users'[id].Phone = resp'.req.phone
                  /\ CheckPassword(users'[id].Password, resp'.req.password)
                  /\ users'[id].TokenVersion = 0
        /\ (/\ resp'.op = "Login"
            /\ \E id \in UserIds :
                  /\ LiveUser(users, id)
                  /\ users[id].Phone = resp'.req.phone
                  /\ users[id].Password = HashPassword(resp'.req.password)) =>
              /\ resp'.status = 200
              /\ resp'.access_token.kind = AccessToken
              /\ resp'.refresh_token.kind = RefreshTokenType
              /\ resp'.access_token.id = resp'.req.id
              /\ resp'.refresh_token.id = resp'.req.id
              /\ users'[resp'.req.id].Phone = resp'.req.phone
              /\ Stamped(resp', users'[resp'.req.id].TokenVersion)
      ]_vars

\* The first login of a registered user, from a device, has succeeded.
C12_Witness ==
    /\ resp.op = "Login" /\ resp.status = 200
    /\ resp.req.password = "secret1" /\ resp.req.device = "B"
    /\ users[resp.req.id].Password = HashPassword("secret1")
    /\ users[resp.req.id].TokenVersion = 0
    /\ Stamped(resp, 0)

(***************************************************************************)
(* C13.  A principal's version starts at 0, is never negative and never    *)
(* decreases; a step changes it by +1 at most, and only a Login that       *)
(* increments, an UpdateUser with a password, a DeleteUser (for users) or  *)
(* a successful AdminLogin (for admins) changes it: register, refresh,     *)
(* the guards, UpdateUser without a password, UpdateAdmin, CreateUser and  *)
(* CreateAdmin leave every version as it was.                              *)
(***************************************************************************)
VersionKeepers ==
    {"Register", "RefreshToken", "JWTProtected", "AdminJWTProtected", "SuperAdminOnly",
     "UpdateAdmin", "CreateUser", "CreateAdmin", "GetAdminByID", "DeleteAdmin", ""}

UserVersionStep(id) ==
    /\ users'[id].TokenVersion >= 0
    /\ users'[id].TokenVersion \in {users[id].TokenVersion, users[id].TokenVersion + 1}
    /\ (~users[id].exists /\ users'[id].exists) => users'[id].TokenVersion = 0
    /\ users'[id].TokenVersion # users[id].TokenVersion =>
          /\ resp'.req.id = id
          /\ \/ resp'.op = "Login" /\ resp'.status = 200
                /\ deviceChanged(users[id].CurrentDeviceID, resp'.req.device)
             \/ resp'.op = "UpdateUser" /\ resp'.status = 200 /\ resp'.req.password # ""
             \/ resp'.op = "DeleteUser" /\ resp'.status \in {200, 500}

AdminVersionStep(id) ==
    /\ admins'[id].TokenVersion >= 0
    /\ admins'[id].TokenVersion \in {admins[id].TokenVersion, admins[id].TokenVersion + 1}
    /\ (~admins[id].exists /\ admins'[id].exists) => admins'[id].TokenVersion = 0
    /\ admins'[id].TokenVersion # admins[id].TokenVersion =>
          resp'.op = "AdminLogin" /\ resp'.status = 200 /\ resp'.req.id = id

C13_WitnessDeleteFailed ==
    /\ resp.op = "DeleteUser" /\ resp.status = 500 /\ resp.message = "Failed to delete user"
    /\ users[resp.req.id].TokenVersion = 1 /\ ~users[resp.req.id].DeletedAt

(***************************************************************************)
(* C14.  After a user or an admin has been soft-deleted, no token issued   *)
(* to it passes JWTProtected, AdminJWTProtected or the refresh endpoint,   *)
(* and what a login with its credentials is answered.                      *)
(***************************************************************************)
\* The principal that the token names has been soft-deleted.
OfDeleted(tok) ==
    \/ tok.kind \in {AccessToken, RefreshTokenType}
       /\ tok.id \in DOMAIN users /\ users[tok.id].DeletedAt
    \/ tok.kind = AdminToken
       /\ tok.id \in DOMAIN admins /\ admins[tok.id].DeletedAt

\* No answer lets a token of a deleted principal through, and the token the
\* client holds would not be let through either.
DeletedTokensRejected ==
    /\ (resp.op \in {"JWTProtected", "AdminJWTProtected", "RefreshToken"} /\ OfDeleted(resp.req.token))
          => resp.status = 401 /\ ~resp.next /\ resp.access_token = NoTok
    /\ (held # NoTok /\ OfDeleted(held)) =>
          /\ GuardStatus(held, users, now) = 401
          /\ RefreshStatus(held, users, now) = 401
          /\ AdminGuardStatus(held, admins, now) = 401

\* The login names the phone (username) and the password of a deleted row.
LoginOfDeletedUser ==
    /\ resp'.op = "Login"
    /\ \E id \in DOMAIN users :
          /\ users[id].DeletedAt /\ users[id].Phone = resp'.req.phone
          /\ users[id].Password = HashPassword(resp'.req.password)

LoginOfDeletedAdmin ==
    /\ resp'.op = "AdminLogin"
    /\ \E id \in DOMAIN admins :
          /\ admins[id].DeletedAt /\ admins[id].Username = resp'.req.username
          /\ admins[id].Password = HashPassword(resp'.req.password)

C14_WitnessLogin ==
    /\ resp.op = "Login" /\ resp.status = 401 /\ resp.message = "Invalid credentials"
    /\ resp.req.password = "secret1"
    /\ \E id \in DOMAIN users : users[id].DeletedAt /\ users[id].Phone = resp.req.phone

(***************************************************************************)
(* C15.  SuperAdminOnly calls the handler only when the context holds the  *)
(* role 'super' that AdminJWTProtected placed there; with no role in the   *)
(* context it answers 401, with another role 403 'Super admin access       *)
(* required', and in both cases the handler does not run.                  *)
(***************************************************************************)
C15_SuperAdminOnlyGate ==
    [][ /\ resp'.op = "SuperAdminOnly" =>
              IF locals.passed = ""
              THEN /\ resp'.status = 401 /\ ~resp'.next /\ locals' = NoLocals
              ELSE IF locals.admin_role # RoleSuper
              THEN /\ resp'.status = 403 /\ resp'.message = "Super admin access required"
                   /\ ~resp'.next /\ locals' = NoLocals
              ELSE /\ resp'.next /\ locals'.passed = "SuperAdminOnly"
                   /\ locals'.admin_role = RoleSuper /\ locals'.id = locals.id
        /\ resp'.op \in {"CreateAdmin", "DeleteAdmin"} =>
              /\ locals.passed = "SuperAdminOnly" /\ locals.admin_role = RoleSuper
              /\ resp.op = "SuperAdminOnly" /\ resp.next
      ]_vars

\* The middleware has refused an admin whose token carries another role.
C15_Witness ==
    /\ resp.op = "SuperAdminOnly" /\ resp.status = 403
    /\ resp.message = "Super admin access required"
    /\ ~resp.next /\ locals = NoLocals
    /\ \E id \in AdminIds : LiveAdmin(admins, id) /\ admins[id].Role = RoleRegular

\* The middleware has refused a request with no role in its context.
C15_WitnessNoRole ==
    resp.op = "SuperAdminOnly" /\ resp.status = 401 /\ ~resp.next

(***************************************************************************)
(* C16.  An admin whose stored role is 'regular' when the request is made  *)
(* is answered 403 by every operation reserved to super admins: the        *)
(* routes behind SuperAdminOnly and a change of role through UpdateAdmin,  *)
(* also when UpdateAdmin made the role 'regular' after the admin's token   *)
(* was issued.                                                             *)
(***************************************************************************)
\* The stored role of the admin whose token the guard has let through.
StoredRole(id) == IF id \in DOMAIN admins THEN admins[id].Role ELSE ""

C16_StoredRegularIsForbidden ==
    [][ /\ (/\ resp'.op = "SuperAdminOnly"
            /\ locals.passed = "AdminJWTProtected"
            /\ StoredRole(locals.id) = RoleRegular)
               => resp'.status = 403 /\ ~resp'.next
        /\ (/\ resp'.op = "UpdateAdmin"
            /\ resp'.req.role # Absent
            /\ StoredRole(locals.id) = RoleRegular)
               => resp'.status = 403 /\ admins' = admins
        /\ (/\ resp'.op \in {"CreateAdmin", "DeleteAdmin"}
            /\ StoredRole(locals.id) = RoleRegular)
               => resp'.status = 403 /\ admins' = admins
      ]_vars

\* What holds instead: the operations reserved to super admins are refused
\* to the admins whose token carries another role than 'super'.
C16_TokenRegularIsForbidden ==
    [][ /\ (/\ resp'.op = "SuperAdminOnly"
            /\ locals.passed = "AdminJWTProtected"
            /\ locals.admin_role # RoleSuper)
               => resp'.status = 403 /\ ~resp'.next
        /\ (/\ resp'.op = "UpdateAdmin"
            /\ resp'.req.role # Absent
            /\ locals.admin_role # RoleSuper)
               => resp'.status = 403 /\ admins' = admins
        /\ resp'.op \in {"CreateAdmin", "DeleteAdmin"} => locals.admin_role = RoleSuper
      ]_vars

\* An admin made 'regular' after its login has deleted an admin with the
\* token of that login.
C16_DemotedAdminDeletes ==
    /\ resp.op = "DeleteAdmin" /\ resp.status = 200
    /\ held.kind = AdminToken /\ held.role = RoleSuper
    /\ admins[held.id].Role = RoleRegular /\ ~admins[held.id].DeletedAt
    /\ admins[held.id].TokenVersion = held.ver
    /\ resp.req.id # held.id

(***************************************************************************)
(* C17.  A regular admin reads (GetAdminByID) and updates (UpdateAdmin)    *)
(* its own record only and changes no admin's role: its request against    *)
(* another admin's id, or with a role field, is answered 403 and changes   *)
(* nothing; a super admin may read and update any admin.                   *)
(***************************************************************************)
C17_RegularAdminOwnRecordOnly ==
    [][ resp'.op \in {"GetAdminByID", "UpdateAdmin"} =>
            LET role == StoredRole(resp'.req.by) IN
            /\ (/\ role = RoleRegular
                /\ \/ resp'.req.id # resp'.req.by
                   \/ resp'.op = "UpdateAdmin" /\ resp'.req.role # Absent)
                  => resp'.status = 403 /\ admins' = admins
            /\ role = RoleSuper => resp'.status # 403
      ]_vars

\* What holds instead: the same, for the role that the token carries.
C17_TokenRegularOwnRecordOnly ==
    [][ resp'.op \in {"GetAdminByID", "UpdateAdmin"} =>
            LET role == resp'.req.by_role IN
            /\ (/\ role = RoleRegular
                /\ \/ resp'.req.id # resp'.req.by
                   \/ resp'.op = "UpdateAdmin" /\ resp'.req.role # Absent)
                  => resp'.status = 403 /\ admins' = admins
            /\ role = RoleSuper => resp'.status # 403
            /\ resp'.req.by = locals.id /\ role = locals.admin_role
            /\ role \in {RoleSuper, RoleRegular}
      ]_vars

\* An admin whose stored role is 'regular' has changed a role with a token
\* that carries 'super'.
C17_DemotedAdminChangesRole ==
    /\ resp.op = "UpdateAdmin" /\ resp.status = 200 /\ resp.req.role = RoleSuper
    /\ resp.req.by_role = RoleSuper
    /\ held.id = resp.req.by /\ admins[held.id].TokenVersion = held.ver
    /\ resp.req.id # resp.req.by
    /\ admins[resp.req.by].Role = RoleRegular

(***************************************************************************)
(* C18.  Token kinds are not interchangeable: a token minted with one kind *)
(* (access, refresh or admin) verifies only when that kind is the expected *)
(* one, and its verification with another expected kind fails with         *)
(* "invalid token type"; the refresh operation rejects access and admin    *)
(* tokens and the user guard rejects refresh and admin tokens.             *)
(***************************************************************************)
Verifications == {"ValidateToken", "ValidateAdminToken"}

\* The kind a token was minted with verifies as that kind only.
VerifiesAsOwnKindOnly ==
    resp'.op \in Verifications /\ resp'.message = "ok"
        => resp'.req.kind = resp'.req.token.kind

\* The refresh operation and the user guard turn the other kinds away.
HandlersRejectOtherKinds ==
    /\ (resp'.op = "RefreshToken" /\ resp'.req.token.kind \in {AccessToken, AdminToken})
          => /\ resp'.status = 401
             /\ resp'.message = "Invalid or expired refresh token"
             /\ resp'.access_token = NoTok
    /\ (resp'.op = "JWTProtected" /\ resp'.req.token.kind \in {RefreshTokenType, AdminToken})
          => /\ resp'.status = 401
             /\ resp'.message = "Invalid or expired token"
             /\ ~resp'.next

C18_WitnessFunction ==
    /\ resp.op = "ValidateToken" /\ resp.message = "invalid token type"
    /\ resp.req.kind = AccessToken /\ resp.req.token.kind = RefreshTokenType

\* An expired access token has been verified as a refresh token.
C18_WitnessExpired ==
    /\ resp.op = "ValidateToken" /\ resp.message = "token is expired"
    /\ resp.req.kind = RefreshTokenType /\ resp.req.token.kind = AccessToken

C19_WitnessAdmin ==
    /\ resp.op = "ValidateAdminToken" /\ resp.message = "ok"
    /\ resp.claims.role = RoleRegular /\ resp.claims.username = "bob"
    /\ resp.claims.token_version = 1

(***************************************************************************)
(* C20.  Login and AdminLogin answer an unknown identity and a wrong       *)
(* password alike, 401 "Invalid credentials"; in both cases the stored     *)
(* version and device stay as they are and no token is issued.             *)
(***************************************************************************)
\* No row that is not soft-deleted has the phone.
UnknownPhone(phone) ==
    \A id \in DOMAIN users :
        ~(users[id].exists /\ ~users[id].DeletedAt /\ users[id].Phone = phone)

\* The row with the phone holds the digest of another password.
WrongUserPassword(phone, password) ==
    \E id \in DOMAIN users :
        /\ users[id].exists /\ ~users[id].DeletedAt /\ users[id].Phone = phone
        /\ users[id].Password # HashPassword(password)

UnknownUsername(username) ==
    \A id \in DOMAIN admins :
        ~(admins[id].exists /\ ~admins[id].DeletedAt /\ admins[id].Username = username)

WrongAdminPassword(username, password) ==
    \E id \in DOMAIN admins :
        /\ admins[id].exists /\ ~admins[id].DeletedAt /\ admins[id].Username = username
        /\ admins[id].Password # HashPassword(password)

InvalidCredentials(answer) ==
    /\ answer.status = 401
    /\ answer.message = "Invalid credentials"
    /\ answer.access_token = NoTok
    /\ answer.refresh_token = NoTok

C20_LoginDoesNotRevealIdentity ==
    [][ /\ (/\ resp'.op = "Login"
            /\ phoneRegex(resp'.req.phone)
            /\ \/ UnknownPhone(resp'.req.phone)
               \/ WrongUserPassword(resp'.req.phone, resp'.req.password))
               => InvalidCredentials(resp') /\ users' = users
        /\ (/\ resp'.op = "AdminLogin"
            /\ resp'.req.username # "" /\ resp'.req.password # ""
            /\ \/ UnknownUsername(resp'.req.username)
               \/ WrongAdminPassword(resp'.req.username, resp'.req.password))
               => InvalidCredentials(resp') /\ admins' = admins
      ]_vars

\* A wrong password for a user who has logged in from a device.
C20_Witness ==
    /\ resp.op = "Login" /\ InvalidCredentials(resp)
    /\ resp.req.phone = PhoneA /\ resp.req.password = "secret2"
    /\ users["u1"].exists /\ ~users["u1"].DeletedAt
    /\ users["u1"].CurrentDeviceID = "A" /\ users["u1"].TokenVersion >= 1

\* A phone that nobody has, while a user is registered.
C20_WitnessUnknown ==
    /\ resp.op = "Login" /\ InvalidCredentials(resp)
    /\ resp.req.phone = PhoneB /\ resp.req.password = "secret1"
    /\ users["u1"].exists /\ ~users["u1"].DeletedAt

\* The phone of a deleted user with the password it had.
C20_WitnessDeleted ==
    /\ resp.op = "Login" /\ InvalidCredentials(resp)
    /\ resp.req.phone = PhoneA /\ resp.req.password = "secret1"
    /\ users["u1"].DeletedAt

\* An unknown username, and a wrong password for the initial admin.
C20_WitnessAdminUnknown ==
    /\ resp.op = "AdminLogin" /\ InvalidCredentials(resp)
    /\ resp.req.username = "nobody"

C20_WitnessAdminWrong ==
    /\ resp.op = "AdminLogin" /\ InvalidCredentials(resp)
    /\ resp.req.username = InitAdminUsername /\ resp.req.password = "wrong"
    /\ admins[InitAdminUUID].TokenVersion >= 1

(***************************************************************************)
(* C21.  Register tests, in this order, the phone format (400), the        *)
(* password length (400, shorter than 6) and the existence of the phone    *)
(* (409); on each of these failures no user is created, and on success     *)
(* exactly one user is created, with version 0 and no stored device.       *)
(***************************************************************************)
\* A row that is not soft-deleted holds the phone.
PhoneTaken(phone) ==
    \E id \in DOMAIN users :
        users[id].exists /\ ~users[id].DeletedAt /\ users[id].Phone = phone

\* The step has created the row id, and no other row has changed.
CreatedOneUser(id, phone, password) ==
    /\ ~users[id].exists
    /\ users'[id].exists /\ ~users'[id].DeletedAt
    /\ users'[id].Phone = phone
    /\ users'[id].Password = HashPassword(password)
    /\ users'[id].TokenVersion = 0
    /\ users'[id].CurrentDeviceID = ""
    /\ \A other \in DOMAIN users \ {id} : users'[other] = users[other]

C21_RegisterChecksInOrder ==
    [][ resp'.op = "Register" =>
          LET phone == resp'.req.phone
              password == resp'.req.password
          IN  IF ~phoneRegex(phone)
              THEN /\ resp'.status = 400
                   /\ resp'.message = "Invalid phone number format. Use international format (e.g., +77771234567)"
                   /\ users' = users
              ELSE IF Len(password) < 6
              THEN /\ resp'.status = 400
                   /\ resp'.message = "Password must be at least 6 characters long"
                   /\ users' = users
              ELSE IF PhoneTaken(phone)
              THEN /\ resp'.status = 409
                   /\ resp'.message = "User with this phone number already exists"
                   /\ users' = users
              ELSE \/ resp'.status = 500 /\ users' = users
                   \/ /\ resp'.status = 201
                      /\ CreatedOneUser(resp'.req.id, phone, password)
      ]_vars

\* A second registration of a phone is refused while the first user is
\* there.
C21_Witness ==
    /\ resp.op = "Register" /\ resp.status = 409
    /\ resp.req.phone = PhoneA /\ resp.req.password = "secret1"
    /\ users["u1"].exists /\ ~users["u1"].DeletedAt /\ ~users["u2"].exists

\* A registration with a bad phone and a short password, and a successful
\* one.
C21_WitnessBadPhone ==
    /\ resp.op = "Register" /\ resp.status = 400
    /\ resp.req.phone = PhoneNoPlus /\ resp.req.password = ShortPassword

C21_WitnessCreated ==
    /\ resp.op = "Register" /\ resp.status = 201
    /\ users[resp.req.id].TokenVersion = 0 /\ users[resp.req.id].CurrentDeviceID = ""

(***************************************************************************)
(* C22.  The registration of a phone that belongs to a soft-deleted user   *)
(* fails with 409: soft deletion does not free the phone.                  *)
(***************************************************************************)
\* A soft-deleted row holds the phone.
PhoneOfDeleted(phone) ==
    \E id \in DOMAIN users :
        users[id].exists /\ users[id].DeletedAt /\ users[id].Phone = phone

ValidRegistration ==
    /\ resp'.op = "Register"
    /\ phoneRegex(resp'.req.phone)
    /\ Len(resp'.req.password) >= 6

\* As stated.
C22_DeletedPhoneStaysTaken ==
    [][ (ValidRegistration /\ PhoneOfDeleted(resp'.req.phone))
            => resp'.status = 409 /\ users' = users
      ]_vars

\* What holds: the phone is free once no row that is not soft-deleted has
\* it; the registration creates a user with an id of its own and leaves the
\* soft-deleted row as it is.
C22_DeletedPhoneIsFree ==
    [][ (ValidRegistration /\ PhoneOfDeleted(resp'.req.phone))
            => IF PhoneTaken(resp'.req.phone)
               THEN resp'.status = 409 /\ users' = users
               ELSE \/ resp'.status = 500 /\ users' = users
                    \/ /\ resp'.status = 201
                       /\ CreatedOneUser(resp'.req.id, resp'.req.phone, resp'.req.password)
      ]_vars

\* The phone of the deleted first user has been registered again.
C22_Witness ==
    /\ resp.op = "Register" /\ resp.status = 201 /\ resp.req.id = "u2"
    /\ resp.req.phone = PhoneA
    /\ users["u1"].DeletedAt /\ users["u1"].Phone = PhoneA
    /\ users["u2"].Phone = PhoneA /\ ~users["u2"].DeletedAt

(***************************************************************************)
(* C23.  A user's phone and an admin's username are immutable identity     *)
(* keys: once the principal is created, no operation changes the stored    *)
(* phone of a user or the stored username of an admin.                     *)
(***************************************************************************)
PhoneKept(id) == users[id].exists => users'[id].Phone = users[id].Phone
UsernameKept(id) == admins[id].exists => admins'[id].Username = admins[id].Username

\* As stated.
C23_IdentityKeysImmutable ==
    [][ /\ \A id \in DOMAIN users : PhoneKept(id)
        /\ \A id \in DOMAIN admins : UsernameKept(id)
      ]_vars

\* What holds: the phone changes in a successful UpdateUser of that user
\* that names another phone, of valid format and of no user that is not
\* soft-deleted, and then becomes that phone; the username changes in a
\* successful UpdateAdmin of that admin that names a username, and then
\* becomes that username; nothing else changes either.
C23_IdentityKeysChangeByUpdateOnly ==
    [][ /\ \A id \in DOMAIN users :
              IF /\ resp'.op = "UpdateUser" /\ resp'.status = 200 /\ resp'.req.id = id
                 /\ resp'.req.phone # NoPhone
              THEN /\ users'[id].Phone = resp'.req.phone
                   /\ resp'.req.phone # users[id].Phone
                         => phoneRegex(resp'.req.phone) /\ ~PhoneTaken(resp'.req.phone)
              ELSE PhoneKept(id)
        /\ \A id \in DOMAIN admins :
              IF /\ resp'.op = "UpdateAdmin" /\ resp'.status = 200 /\ resp'.req.id = id
                 /\ resp'.req.username # Absent
              THEN admins'[id].Username = resp'.req.username
              ELSE UsernameKept(id)
      ]_vars

\* An admin has given the first user another phone.
C23_Witness ==
    /\ resp.op = "UpdateUser" /\ resp.status = 200 /\ resp.req.id = "u1"
    /\ resp.req.phone = PhoneB /\ users["u1"].Phone = PhoneB
    /\ ~users["u1"].DeletedAt

\* The initial admin has another username.
C23_WitnessAdmin ==
    /\ resp.op = "UpdateAdmin" /\ resp.status = 200 /\ resp.req.id = InitAdminUUID
    /\ admins[InitAdminUUID].Username = "carol"

(***************************************************************************)
(* C24.  After every sequence of Register, CreateUser, UpdateUser,         *)
(* CreateAdmin, UpdateAdmin and the deletions, no two users that are not   *)
(* soft-deleted share a phone and no two admins that are not soft-deleted  *)
(* share a username.                                                       *)
(***************************************************************************)
UsersUnique ==
    \A i, j \in DOMAIN users :
        (/\ i # j
         /\ users[i].exists /\ ~users[i].DeletedAt
         /\ users[j].exists /\ ~users[j].DeletedAt) => users[i].Phone # users[j].Phone

AdminsUnique ==
    \A i, j \in DOMAIN admins :
        (/\ i # j
         /\ admins[i].exists /\ ~admins[i].DeletedAt
         /\ admins[j].exists /\ ~admins[j].DeletedAt) => admins[i].Username # admins[j].Username

C24_IdentitiesUnique == UsersUnique /\ AdminsUnique

\* The part that holds when the requests are served one after the other:
\* the phones of the users.
C24_PhonesUnique == UsersUnique

\* Two admins bear the username of the initial admin after an UpdateAdmin.
C24_TwoAdminsOneUsername ==
    /\ resp.op = "UpdateAdmin" /\ resp.status = 200
    /\ \E i, j \in DOMAIN admins :
          /\ i # j
          /\ admins[i].exists /\ ~admins[i].DeletedAt
          /\ admins[j].exists /\ ~admins[j].DeletedAt
          /\ admins[i].Username = InitAdminUsername
          /\ admins[j].Username = InitAdminUsername

(***************************************************************************)
(* C25.  Admin tokens carry no expiry: an admin token that passes          *)
(* AdminJWTProtected at some instant passes it at every later instant, as  *)
(* long as the stored version of the admin is unchanged and the admin is   *)
(* not deleted, however much time elapses.                                 *)
(***************************************************************************)
C25_AdminTokenNeverExpires ==
    [][ (/\ held.kind = AdminToken
         /\ held' = held
         /\ AdminGuardStatus(held, admins, now) = 200
         /\ LiveAdmin(admins', held.id)
         /\ admins'[held.id].TokenVersion = admins[held.id].TokenVersion)
            => AdminGuardStatus(held, admins', now') = 200
      ]_vars

\* The guard has let an admin token of instant 0 through at the last
\* instant of the clock, after every expiry of a user token.
C25_Witness ==
    /\ resp.op = "AdminJWTProtected" /\ resp.status = 200
    /\ resp.req.token = held /\ held.kind = AdminToken /\ held.iat = 0
    /\ now = MaxTime /\ now >= RefreshExpiry

(***************************************************************************)
(* C26.  User tokens expire by time: verification rejects an access token  *)
(* at every instant after its issue time plus the access expiry, and a     *)
(* refresh token at every instant after its issue time plus the refresh    *)
(* expiry, also when its stamp still equals the stored version.            *)
(***************************************************************************)
\* The configured life of a user token of the kind.
Life(kind) == IF kind = RefreshTokenType THEN RefreshExpiry ELSE AccessExpiry

PastExpiry(tok) ==
    /\ tok.kind \in {AccessToken, RefreshTokenType}
    /\ now > tok.iat + Life(tok.kind)

C26_UserTokensExpire ==
    \A tok \in Given :
        PastExpiry(tok)
            => /\ ValidateToken(tok, tok.kind, now) # "ok"
               /\ ValidateTokenClaims(tok, tok.kind, now) = NoClaims
               /\ GuardStatus(tok, users, now) = 401
               /\ RefreshStatus(tok, users, now) = 401
               /\ (resp.op = "RefreshToken" /\ resp.req.token = tok)
                     => resp.status = 401 /\ resp.access_token = NoTok
               /\ (resp.op = "JWTProtected" /\ resp.req.token = tok) => ~resp.next

\* The refresh operation has refused a refresh token after its expiry,
\* while the stamp of the token is the stored version of its user.
C26_Witness ==
    /\ resp.op = "RefreshToken" /\ resp.status = 401
    /\ resp.req.token = held /\ held.kind = RefreshTokenType
    /\ now > held.iat + RefreshExpiry
    /\ LiveUser(users, held.id) /\ users[held.id].TokenVersion = held.ver

\* The guard has refused an access token after its expiry, stamp equal.
C26_WitnessAccess ==
    /\ resp.op = "JWTProtected" /\ resp.status = 401
    /\ resp.req.token = held /\ held.kind = AccessToken
    /\ now > held.iat + AccessExpiry
    /\ LiveUser(users, held.id) /\ users[held.id].TokenVersion = held.ver

(***************************************************************************)
(* C27.  CreateInitialAdmin is idempotent: at every start, after every     *)
(* sequence of admin operations, it completes; when an admin with the      *)
(* bootstrap id is there it changes nothing (password, role and version    *)
(* are not reset), otherwise it creates exactly one super admin with that  *)
(* id and version 0; repeated runs never create a second admin.            *)
(***************************************************************************)
Rows(as) == {id \in DOMAIN as : as[id].exists}

C27_CreateInitialAdminIdempotent ==
    [][ resp'.op = "CreateInitialAdmin" =>
          /\ resp'.status = 0
          /\ IF admins[InitAdminUUID].exists
             THEN admins' = admins
             ELSE /\ admins' = [admins EXCEPT ![InitAdminUUID] =
                                   NewAdmin(InitAdminUsername, InitAdminPassword, RoleSuper)]
                  /\ admins'[InitAdminUUID].TokenVersion = 0
          /\ Rows(admins') \subseteq Rows(admins) \cup {InitAdminUUID}
      ]_vars

\* What holds: the same while the admin with the bootstrap id is not
\* soft-deleted; once it is, the start fails and changes nothing.
C27_StartFailsAfterDeletion ==
    [][ resp'.op = "CreateInitialAdmin" =>
          IF admins[InitAdminUUID].exists /\ admins[InitAdminUUID].DeletedAt
          THEN resp'.status = 1 /\ admins' = admins
          ELSE /\ resp'.status = 0
               /\ IF admins[InitAdminUUID].exists
                  THEN admins' = admins
                  ELSE admins' = [admins EXCEPT ![InitAdminUUID] =
                                     NewAdmin(InitAdminUsername, InitAdminPassword, RoleSuper)]
      ]_vars

\* The process has failed to start after the deletion of the initial admin.
C27_StartupFatal ==
    /\ resp.op = "CreateInitialAdmin" /\ resp.status = 1
    /\ admins[InitAdminUUID].DeletedAt

\* A restart has left a changed password, role and version as they were.
C27_RestartKeepsChanges ==
    /\ resp.op = "CreateInitialAdmin" /\ resp.status = 0
    /\ admins[InitAdminUUID].Password = HashPassword("secret2")
    /\ admins[InitAdminUUID].Role = RoleRegular
    /\ admins[InitAdminUUID].TokenVersion >= 1

(***************************************************************************)
(* C28.  Tampering with a minted token always fails verification: a token  *)
(* string that differs from a minted one, by a character changed or        *)
(* appended, is rejected by ValidateToken and ValidateAdminToken, so that  *)
(* no claim (id, kind, role, version) is altered without the secret.       *)
(***************************************************************************)
Presented == resp'.op \in Verifications /\ resp'.req.raw # NoString

C28_WitnessAppended ==
    /\ resp.op = "ValidateToken" /\ resp.message = "signature is invalid"
    /\ resp.req.raw = [SignedString(held) EXCEPT !.tail = <<"x">>]
    /\ resp.req.kind = held.kind

\* A string that differs from the minted one in the last character of the
\* signature, or by a line feed at its end, has been accepted.
C28_WitnessAccepted ==
    /\ resp.op \in Verifications /\ resp.message = "ok"
    /\ resp.req.raw # SignedString(held)

(***************************************************************************)
(* C29.  Under every interleaving of concurrent requests for one           *)
(* principal (Login with or without device id, UpdateUser, DeleteUser;     *)
(* AdminLogin, UpdateAdmin), each reading the record and later saving the  *)
(* whole record, the stored version never decreases, so that a token once  *)
(* rejected as invalidated is never accepted again.                        *)
(***************************************************************************)
VersionsNeverDecrease ==
    /\ \A id \in DOMAIN users :
          users[id].exists => users'[id].TokenVersion >= users[id].TokenVersion
    /\ \A id \in DOMAIN admins :
          admins[id].exists => admins'[id].TokenVersion >= admins[id].TokenVersion

\* The kept token, refused for its version before the step, is not let
\* through after it.
InvalidatedStaysRejected ==
    (held' = held /\ held # NoTok)
        => /\ (held.kind = AccessToken /\ GuardMessage(held, users, now) = Invalidated)
                 => GuardStatus(held, users', now') = 401
           /\ (/\ held.kind = AdminToken
               /\ AdminGuardStatus(held, admins, now) = 401
               /\ LiveAdmin(admins, held.id))
                 => AdminGuardStatus(held, admins', now') = 401

C29_VersionsMonotonicUnderConcurrency ==
    [][VersionsNeverDecrease /\ InvalidatedStaysRejected]_vars

\* The guard has let through an access token whose stamp is below a
\* version that the user's row has held since the token was kept.
C29_InvalidatedTokenAccepted ==
    /\ resp.op = "JWTProtected" /\ resp.status = 200 /\ resp.req.token = held
    /\ users[held.id].CurrentDeviceID = "A"
    /\ held.ver = users[held.id].TokenVersion
    /\ held.ver >= 1

(***************************************************************************)
(* C30.  Only the latest admin login session is valid: at every instant,   *)
(* the tokens issued by two different successful AdminLogin calls of one   *)
(* admin are never both accepted by AdminJWTProtected, also when the two   *)
(* logins overlap in time.                                                 *)
(***************************************************************************)
\* held is a token the client kept from an earlier AdminLogin, and the last
\* answer is that of another AdminLogin of the same admin.
TwoAdminLogins ==
    /\ resp.op = "AdminLogin" /\ resp.status = 200
    /\ held.kind = AdminToken /\ held.id = resp.access_token.id

C30_OnlyLatestAdminSession ==
    TwoAdminLogins
        => ~(/\ AdminGuardStatus(held, admins, now) = 200
             /\ AdminGuardStatus(resp.access_token, admins, now) = 200)

\* Two logins of the initial admin that overlapped have issued tokens of
\* different instants that the guard both lets through.
C30_TwoSessionsAccepted ==
    /\ TwoAdminLogins
    /\ held.iat < resp.access_token.iat
    /\ AdminGuardStatus(held, admins, now) = 200
    /\ AdminGuardStatus(resp.access_token, admins, now) = 200

(***************************************************************************)
(* C31.  Two overlapping no-device logins of one user can both read        *)
(* version N and both write N+1: the stored version is then N+1 and not    *)
(* N+2, both issued token pairs are stamped N+1 and both pass the guard.   *)
(***************************************************************************)
\* The step is the Save of a no-device login that has read version N, made
\* after another login has stored N+1 and the client has kept its token.
OverlappedNoDeviceLogin ==
    /\ inflight.op = "Login" /\ inflight' = NoFlight
    /\ inflight.req.device = ""
    /\ resp'.op = "Login" /\ resp'.status = 200
    /\ users[inflight.id].TokenVersion = inflight.user.TokenVersion + 1
    /\ held.kind = AccessToken /\ held.id = inflight.id
    /\ held.ver = users[inflight.id].TokenVersion

C31_OverlappingLoginsLoseIncrement ==
    [][OverlappedNoDeviceLogin
          => /\ users'[inflight.id].TokenVersion = inflight.user.TokenVersion + 1
             /\ Stamped(resp', inflight.user.TokenVersion + 1)
             /\ GuardStatus(resp'.access_token, users', now') = 200
             /\ now < held.exp => GuardStatus(held, users', now') = 200]_vars

\* Two different no-device logins have answered with the same stamp, the
\* stamp is the stored version, and both access tokens pass the guard.
C31_Witness ==
    /\ resp.op = "Login" /\ resp.status = 200 /\ resp.req.device = ""
    /\ held.kind = AccessToken /\ held.id = resp.access_token.id
    /\ users[held.id].CurrentDeviceID = ""
    /\ held.ver = resp.access_token.ver
    /\ held.ver = users[held.id].TokenVersion
    /\ GuardStatus(held, users, now) = 200
    /\ GuardStatus(resp.access_token, users, now) = 200

(***************************************************************************)
(* C32.  When UpdateUser changes the phone number of a user it increments  *)
(* the token version of the user, so that every token issued before the    *)
(* change, which carries the old phone in its claims, is afterwards        *)
(* rejected by JWTProtected.                                               *)
(***************************************************************************)
PhoneChanged ==
    /\ resp'.op = "UpdateUser" /\ resp'.status = 200
    /\ users'[resp'.req.id].Phone # users[resp'.req.id].Phone

C32_PhoneChangeInvalidates ==
    [][PhoneChanged
          => /\ users'[resp'.req.id].TokenVersion > users[resp'.req.id].TokenVersion
             /\ (held.kind = AccessToken /\ held.id = resp'.req.id)
                   => GuardStatus(held, users', now') = 401]_vars

\* The guard has let through a token whose phone claim is not the phone of
\* the user any more.
C32_OldPhoneTokenAccepted ==
    /\ resp.op = "JWTProtected" /\ resp.status = 200 /\ resp.req.token = held
    /\ held.phone # users[held.id].Phone

\* With the version incremented on a phone change as the handler's comment
\* says, no accepted token carries another phone than the stored one.
C32_AcceptedTokenHasStoredPhone ==
    (resp.op = "JWTProtected" /\ resp.status = 200)
        => resp.req.token.phone = users[resp.req.token.id].Phone

(***************************************************************************)
(* C33.  DeleteAdmin never deletes the initial super admin: a request      *)
(* whose id is the id of the bootstrap admin is answered 403 'Cannot       *)
(* delete the initial super admin' and the record stays non-deleted.       *)
(***************************************************************************)
DeleteOfInitialAdmin == resp'.op = "DeleteAdmin" /\ resp'.req.id = InitAdminUUID

C33_InitialAdminNotDeletable ==
    [][DeleteOfInitialAdmin
          => /\ resp'.status = 403
             /\ resp'.message = "Cannot delete the initial super admin"
             /\ admins'[InitAdminUUID].DeletedAt = admins[InitAdminUUID].DeletedAt]_vars

\* DeleteAdmin has answered 200 for the id of the initial admin, whose row
\* is now soft-deleted.
C33_InitialAdminDeleted ==
    /\ resp.op = "DeleteAdmin" /\ resp.req.id = InitAdminUUID /\ resp.status = 200
    /\ admins[InitAdminUUID].DeletedAt

(***************************************************************************)
(* C38.  Once the bootstrap super admin exists, every reachable state has  *)
(* at least one non-deleted admin whose stored role is 'super': no         *)
(* sequence of CreateAdmin, UpdateAdmin and DeleteAdmin removes or demotes *)
(* the last super admin.                                                   *)
(***************************************************************************)
SuperAdmins(as) == {id \in DOMAIN as : LiveAdmin(as, id) /\ as[id].Role = RoleSuper}

C38_SuperAdminRemains == SuperAdmins(admins) # {}

\* The last super admin has deleted its own record.
C38_LastSuperDeleted ==
    /\ resp.op = "DeleteAdmin" /\ resp.status = 200
    /\ SuperAdmins(admins) = {}

\* The last super admin has made itself a regular admin.
C38_LastSuperDemoted ==
    /\ resp.op = "UpdateAdmin" /\ resp.status = 200 /\ resp.req.role = RoleRegular
    /\ resp.req.by = resp.req.id
    /\ LiveAdmin(admins, resp.req.id)
    /\ SuperAdmins(admins) = {}

(***************************************************************************)
(* C34.  Both guards decide by the first failing check in this order:      *)
(* Authorization header present, header of the form 'Bearer <token>',      *)
(* token verifies with the expected kind, principal found by id, version   *)
(* stamp equals the stored version; each failure has its own outcome, a    *)
(* principal that is not found being reported as 'user/admin not found'    *)
(* and a version mismatch as 'invalidated, please login again', both       *)
(* distinct from the generic 'invalid or expired token'.                   *)
(***************************************************************************)
GuardOps == {"JWTProtected", "AdminJWTProtected"}

\* The token is signed with the secret by HS256, of the kind the guard
\* expects, and not expired.
Verifies(tok, kind) ==
    /\ tok.alg = HS256 /\ tok.key = Secret
    /\ tok.kind = kind
    /\ tok.exp # NoExp => now < tok.exp

PrincipalFound(op, tok) ==
    IF op = "JWTProtected"
    THEN tok.id \in DOMAIN users /\ users[tok.id].exists /\ ~users[tok.id].DeletedAt
    ELSE tok.id \in DOMAIN admins /\ admins[tok.id].exists /\ ~admins[tok.id].DeletedAt

StampIsStored(op, tok) ==
    IF op = "JWTProtected" THEN users[tok.id].TokenVersion = tok.ver
    ELSE admins[tok.id].TokenVersion = tok.ver

\* The first check, in the order of the claim, that the last guarded
\* request fails; "none" when it fails none.
FirstFailure ==
    LET kind == IF resp.op = "JWTProtected" THEN AccessToken ELSE AdminToken
        tok == resp.req.token
    IN  IF resp.req.header = "missing" THEN "header"
        ELSE IF resp.req.header # "bearer" THEN "format"
        ELSE IF ~Verifies(tok, kind) THEN "token"
        ELSE IF ~PrincipalFound(resp.op, tok) THEN "principal"
        ELSE IF ~StampIsStored(resp.op, tok) THEN "version"
        ELSE "none"

\* The messages of the failures that both guards word alike.
CommonMessage(failure) ==
    CASE failure = "header" -> "Missing authorization header"
      [] failure = "format" -> "Invalid authorization header format. Use: Bearer <token>"
      [] failure = "token" -> "Invalid or expired token"
      [] OTHER -> ""

GuardDecidesBy(message(_, _)) ==
    resp.op \in GuardOps
        => IF FirstFailure = "none"
           THEN resp.status = 200 /\ resp.next
           ELSE /\ resp.status = 401 /\ ~resp.next
                /\ resp.message = IF FirstFailure \in {"principal", "version"}
                                  THEN message(resp.op, FirstFailure)
                                  ELSE CommonMessage(FirstFailure)

\* The outcomes as the claim words them.
ClaimedMessage(op, failure) ==
    IF failure = "principal"
    THEN (IF op = "JWTProtected" THEN "User not found" ELSE "Admin not found")
    ELSE "Token has been invalidated. Please login again."

\* The outcomes of the two guards: the admin guard has one message for an
\* admin that is not found and for a stamp that is not the stored version.
GuardMessageOf(op, failure) ==
    IF op = "JWTProtected"
    THEN ClaimedMessage(op, failure)
    ELSE "Token has been invalidated"

C34_WitnessUserNotFound ==
    /\ resp.op = "JWTProtected" /\ FirstFailure = "principal"
    /\ resp.message = "User not found"

C34_WitnessVersion ==
    /\ resp.op = "JWTProtected" /\ FirstFailure = "version"
    /\ resp.message = Invalidated

\* A forged token naming a deleted user fails the third check first.
C34_WitnessOrder ==
    /\ resp.op = "JWTProtected" /\ FirstFailure = "token"
    /\ ~PrincipalFound(resp.op, resp.req.token)
    /\ resp.message = "Invalid or expired token"

(***************************************************************************)
(* C35.  Every request that ends in an error response (4xx or 5xx) leaves  *)
(* all user and admin records unchanged: version, device id, password      *)
(* hash, phone or username, role and deletion marker are as before the     *)
(* request, for Register, Login, RefreshToken, AdminLogin, CreateUser,     *)
(* UpdateUser, DeleteUser, CreateAdmin, UpdateAdmin and DeleteAdmin.       *)
(***************************************************************************)
Handlers ==
    {"Register", "Login", "RefreshToken", "AdminLogin", "CreateUser", "UpdateUser",
     "DeleteUser", "CreateAdmin", "UpdateAdmin", "DeleteAdmin"}

ErrorResponse == resp'.op \in Handlers /\ resp'.status >= 400

C35_ErrorsChangeNothing ==
    [][ErrorResponse => users' = users /\ admins' = admins]_vars

\* DeleteUser has answered 500 'Failed to delete user' and the user, not
\* deleted, has the version that the handler had already saved.
C35_DeleteFailureKeepsIncrement ==
    /\ resp.op = "DeleteUser" /\ resp.status = 500
    /\ LiveUser(users, resp.req.id)
    /\ users[resp.req.id].TokenVersion > 0
    /\ held.kind = AccessToken => held.ver < users[resp.req.id].TokenVersion

(***************************************************************************)
(* C36.  Token validation is read-only: JWTProtected, AdminJWTProtected,   *)
(* SuperAdminOnly and the refresh endpoint never modify a user or admin    *)
(* record, whatever their outcome.                                         *)
(***************************************************************************)
Validators == {"JWTProtected", "AdminJWTProtected", "SuperAdminOnly", "RefreshToken"}

C36_ValidationReadOnly ==
    [][resp'.op \in Validators => users' = users /\ admins' = admins]_vars

\* A refresh has succeeded for a user whose version logins have incremented.
C36_Witness ==
    /\ resp.op = "RefreshToken" /\ resp.status = 200
    /\ users[resp.req.token.id].TokenVersion = resp.req.token.ver
    /\ resp.req.token.ver > 0

C36_WitnessRejected ==
    /\ resp.op = "AdminJWTProtected" /\ resp.status = 401
    /\ LiveAdmin(admins, resp.req.token.id)

C36_WitnessSuperAdminOnly ==
    /\ resp.op = "SuperAdminOnly" /\ resp.next
    /\ admins[InitAdminUUID].TokenVersion > 0

(***************************************************************************)
(* C37.  A successful user Login stores the supplied device id as the      *)
(* current device whenever one is supplied, and leaves the stored current  *)
(* device unchanged when none is supplied: a no-device login increments    *)
(* the version but does not clear or replace the stored device.            *)
(***************************************************************************)
C37_LoginStoresSuppliedDevice ==
    [][LoginSucceeds
          => LET id == resp'.req.id
                 deviceID == resp'.req.device
             IN  IF deviceID # ""
                 THEN users'[id].CurrentDeviceID = deviceID
                 ELSE /\ users'[id].CurrentDeviceID = users[id].CurrentDeviceID
                      /\ users'[id].TokenVersion = users[id].TokenVersion + 1]_vars

\* A no-device login has succeeded for a user with a stored device, which
\* is still stored.
C37_Witness ==
    /\ resp.op = "Login" /\ resp.status = 200 /\ resp.req.device = ""
    /\ users[resp.req.id].CurrentDeviceID = "A"
    /\ resp.access_token.ver = users[resp.req.id].TokenVersion

\* A login with device B has replaced the stored device A.
C37_WitnessReplaced ==
    /\ resp.op = "Login" /\ resp.status = 200 /\ resp.req.device = "B"
    /\ users[resp.req.id].CurrentDeviceID = "B"
    /\ held.kind = AccessToken /\ held.ver < resp.access_token.ver

(***************************************************************************)
(* C39.  OpenGate and CloseGate forward an open or close command to the    *)
(* third-party gate API only for a gate that is assigned to the phone of   *)
(* the authenticated user; a request for a gate not assigned to that       *)
(* phone sends no command.                                                 *)
(***************************************************************************)
GateActions == {"OpenGate", "CloseGate"}

C39_CommandsOnlyForAssignedGates ==
    (resp.op \in GateActions /\ resp.call # NoCall) => resp.call.id \in resp.req.assigned

\* The open command for gate 2 was sent, and answered, for a user whose
\* phone has gate 1 only.
C39_UnassignedGateOpened ==
    /\ resp.op = "OpenGate" /\ resp.status = 200 /\ resp.gate_status
    /\ resp.req.phone = PhoneA /\ resp.req.assigned = {1}
    /\ resp.call = [NoCall EXCEPT !.method = "PUT", !.route = "open", !.id = 2]

(***************************************************************************)
(* C40.  OpenGate, CloseGate and GetGatesByLocation answer 400 and make no *)
(* call to the third-party API whenever the id in the path is not an       *)
(* integer or is not positive.                                             *)
(***************************************************************************)
\* The path ids that are decimal numerals of a positive integer: digits,
\* not all of them 0, after an optional plus sign.
PositiveIntegers ==
    {str \in PathIds :
        LET ds == IF str[1] = "+" THEN Tail(str) ELSE str
        IN  /\ ds # <<>>
            /\ \A i \in 1..Len(ds) : ds[i] \in Digits
            /\ \E i \in 1..Len(ds) : ds[i] # "0"}

C40_BadIdAnswers400 ==
    (resp.op \in GateActions \cup {"GetGatesByLocation"} /\ resp.req.path \notin PositiveIntegers)
        => resp.status = 400 /\ resp.call = NoCall

\* OpenGate has refused the id -1 without a call.
C40_Witness ==
    /\ resp.op = "OpenGate" /\ resp.req.path = <<"-", "1">>
    /\ resp.status = 400 /\ resp.message = "Invalid gate ID" /\ resp.call = NoCall

C40_WitnessNotInteger ==
    /\ resp.op = "GetGatesByLocation" /\ resp.req.path = <<"1", ".", "5">>
    /\ resp.status = 400 /\ resp.message = "Invalid location ID" /\ resp.call = NoCall

\* An id that is a positive integer is forwarded.
C40_WitnessForwarded ==
    /\ resp.op = "CloseGate" /\ resp.req.path = <<"+", "1">>
    /\ resp.call.id = 1 /\ resp.status = 200

====
